---- MODULE Spec2Model ----
(***************************************************************************)
(* Yield engine of talken-stable-vault: DefiLlamaService (pool feed,       *)
(* strategy selection, weight allocation) and APYEngine (per-vault cache). *)
(* Strings the code inspects character by character (protocol names,       *)
(* pool symbols) are sequences of one-character strings.  Numbers the code *)
(* divides are exact fractions [n, d]; d = 0 encodes the IEEE results of a *)
(* division by zero (n = 0: NaN, n = 1: Infinity).                         *)
(***************************************************************************)
EXTENDS Integers, Sequences, FiniteSets, TLC

VARIABLES
    pc,           \* position of the allocation pipeline
    vaultId,      \* vault the pipeline runs for
    pools,        \* strategies as mapped from the filtered pools, per feed order
    strategies,   \* argument of calculateOptimalWeights
    totalTVL,     \* argument of calculateOptimalWeights
    selected,     \* the local `selected` of calculateOptimalWeights
    result,       \* value returned by calculateOptimalWeights
    prev,         \* the previous call, kept to compare two calls
    now,          \* Date.now()
    ticks,        \* clock advances so far
    feed,         \* what the upstream answers at present (index into Feeds)
    cache,        \* DefiLlamaService.cache, entry 'all-pools'
    currentAPYs,  \* APYEngine.currentAPYs
    calls,        \* calls suspended at an await
    started,      \* calls made so far
    lastGood,     \* data of the last successful upstream response (0: none yet)
    replaced,     \* per vault, lastUpdate of the entry the latest store replaced
    fetched,      \* the last fetchPools response handled: outcome and value returned
    served,       \* the last getVaultAPY call that returned
    fpc,          \* position of a getPoolsForChain call
    raw,          \* pools of the feed, as fetchPools returned them
    chainKey,     \* chain argument of getPoolsForChain
    eligible,     \* pools getPoolsForChain returned
    vaultStates,  \* APYEngine.vaultStates
    overwritten,  \* per vault, the snapshot the latest updateVaultState replaced
    updates,      \* updateVaultState calls so far
    realAPY,      \* the last calculateRealAPY call: arguments and value
    decision,     \* the last triggerRebalanceIfNeeded call: arguments and value
    response,     \* the last HTTP response a controller handler sent
    clients,      \* WebSocketService.clients, in insertion order
    readyState,   \* per socket: "none" before it connects, then "open", "closing", "closed"
    running,      \* the WebSocket server accepts connections and its interval timer is set
    initialSends, \* sockets whose sendAPYUpdate awaits getAllVaultAPYs
    broadcasts,   \* broadcastAPYUpdates calls awaiting getAllVaultAPYs
    intervals,    \* times the interval timer fired
    inbox,        \* per socket, the messages sent to it
    lastSend,     \* the last sendAPYUpdate or broadcastAPYUpdates that finished
    deployed,     \* the vault contract exists
    feeBps,       \* TSV_USDT0_Vault.feeBps
    totalSupply,  \* shares of the vault in existence
    balanceOf,    \* shares per holder
    tokenOf,      \* asset tokens per account, the vault's own under "vault"
    txs,          \* transactions sent to the vault so far
    lastTx,       \* the last transaction sent to the vault and its outcome
    vaultNonces,  \* the vault's nonces mapping (TSV_USDT0_Vault.nonces)
    approved,     \* the holders whose shares the relayer may spend without limit
    peers,        \* OAppCoordinator.peers
    messages,     \* OAppCoordinator.messages
    nonces,       \* OAppCoordinator.nonces
    executionTimeout, \* OAppCoordinator.executionTimeout
    blockTime,    \* block.timestamp
    lastReceive,  \* the last lzReceive call and its outcome
    received,     \* per source chain, the highest nonce of a message lzReceive accepted
    strategyTable, \* StrategyRouter.strategies
    routerTime,   \* block.timestamp seen by the router
    lastCall,     \* the last call to the router and its outcome
    requests,     \* feed requests of fetchPools calls, in the order they were issued
    lastStore,    \* the last cache.set of fetchPools: whose response, over whose
    rebalanceCheck \* the last RebalanceService.shouldRebalance call and its value

pipeVars == <<pc, vaultId, pools, strategies, totalTVL, selected, result, prev>>
engineVars == <<now, ticks, feed, cache, currentAPYs, calls, started, lastGood, replaced,
                fetched, served>>
filterVars == <<fpc, raw, chainKey, eligible>>
trackerVars == <<vaultStates, overwritten, updates, realAPY, decision>>
apiVars == <<response>>
wsVars == <<clients, readyState, running, initialSends, broadcasts, intervals, inbox, lastSend>>
sigVars == <<vaultNonces, approved>>
vaultVars == <<deployed, feeBps, totalSupply, balanceOf, tokenOf, txs, lastTx, sigVars>>
coordVars == <<peers, messages, nonces, executionTimeout, blockTime, lastReceive, received>>
routerVars == <<strategyTable, routerTime, lastCall>>
fetchVars == <<requests, lastStore>>
operatorVars == <<rebalanceCheck>>
laterVars == <<wsVars, vaultVars, coordVars, routerVars, fetchVars, operatorVars>>
restVars == <<filterVars, trackerVars, apiVars, laterVars>>
vars == <<pipeVars, engineVars, restVars>>

----------------------------------------------------------------------------
(* Bounds of the model *)

MaxFree == 2
MaxOver == 1
MaxBumpLen == 3
MaxCalls == 2
MaxInFlight == 4
MaxTicks == 2
MaxRaw == 2
MaxUpdates == 2
MaxElapse == 2

----------------------------------------------------------------------------
(* Character strings *)

Min(S) == CHOOSE x \in S : \A y \in S : x <= y

Upper == <<"A","B","C","D","E","F","G","H","I","J","K","L","M","N","O","P","Q","R","S","T","U","V","W","X","Y","Z">>
Lower == <<"a","b","c","d","e","f","g","h","i","j","k","l","m","n","o","p","q","r","s","t","u","v","w","x","y","z">>

\* the characters of the protocol names and pool symbols the inputs use
chars(name) ==
    CASE name = "aave-v3" -> <<"a","a","v","e","-","v","3">>
      [] name = "curve" -> <<"c","u","r","v","e">>
      [] name = "pendle" -> <<"p","e","n","d","l","e">>
      [] name = "fraxlend" -> <<"f","r","a","x","l","e","n","d">>
      [] name = "balancer" -> <<"b","a","l","a","n","c","e","r">>
      [] name = "uniswap-v3" -> <<"u","n","i","s","w","a","p","-","v","3">>
      [] name = "compound-v3" -> <<"c","o","m","p","o","u","n","d","-","v","3">>
      [] name = "ethena" -> <<"e","t","h","e","n","a">>
      [] name = "yearn" -> <<"y","e","a","r","n">>
      [] name = "curve-dex" -> <<"c","u","r","v","e","-","d","e","x">>
      [] name = "morpho-blue" -> <<"m","o","r","p","h","o","-","b","l","u","e">>
      [] name = "fluid-lending" -> <<"f","l","u","i","d","-","l","e","n","d","i","n","g">>
      [] name = "kamino-lend" -> <<"k","a","m","i","n","o","-","l","e","n","d">>
      [] name = "marginfi" -> <<"m","a","r","g","i","n","f","i">>
      [] name = "USDC" -> <<"U","S","D","C">>
      [] name = "USDC.E" -> <<"U","S","D","C",".","E">>
      [] name = "USDCET" -> <<"U","S","D","C","E","T">>
      [] name = "USDT0" -> <<"U","S","D","T","0">>
      [] name = "USDT" -> <<"U","S","D","T">>
      [] name = "USDC-USDT" -> <<"U","S","D","C","-","U","S","D","T">>
      [] name = "DAI" -> <<"D","A","I">>
      [] name = "Ethereum" -> <<"E","t","h","e","r","e","u","m">>
      [] name = "Arbitrum" -> <<"A","r","b","i","t","r","u","m">>
      [] name = "Arbitrum Nova" -> <<"A","r","b","i","t","r","u","m"," ","N","o","v","a">>
      [] name = "Base" -> <<"B","a","s","e">>
      [] name = "Plasma" -> <<"P","l","a","s","m","a">>
      [] name = "Solana" -> <<"S","o","l","a","n","a">>
      [] name = "BSC" -> <<"B","S","C">>
      [] name = "Polygon" -> <<"P","o","l","y","g","o","n">>
      [] name = "usdc" -> <<"u","s","d","c">>
      [] name = "USDC-WETH" -> <<"U","S","D","C","-","W","E","T","H">>
      [] name = "SUSDC" -> <<"S","U","S","D","C">>
      [] name = "FRAX" -> <<"F","R","A","X">>
      [] name = "BUSD" -> <<"B","U","S","D">>
      [] name = " USDC" -> <<" ","U","S","D","C">>
      [] name = "USDC - USDT" -> <<"U","S","D","C"," ","-"," ","U","S","D","T">>
      [] name = "USDE" -> <<"U","S","D","E">>
      [] name = "WBTC" -> <<"W","B","T","C">>

lowerOf == [c \in {Upper[k] : k \in 1..26} |-> Lower[CHOOSE k \in 1..26 : Upper[k] = c]]

toLowerCase(s) ==
    [i \in 1..Len(s) |-> IF s[i] \in DOMAIN lowerOf THEN lowerOf[s[i]] ELSE s[i]]

includes(s, p) ==
    \E i \in 1..(Len(s) - Len(p) + 1) : \A j \in 1..Len(p) : s[i + j - 1] = p[j]

endsWith(s, suf) ==
    Len(s) >= Len(suf) /\ SubSeq(s, Len(s) - Len(suf) + 1, Len(s)) = suf

dropLast(s, k) == SubSeq(s, 1, Len(s) - k)

\* asset.split('-')[0]
splitHead(s) ==
    LET at == {i \in 1..Len(s) : s[i] = "-"}
    IN  IF at = {} THEN s ELSE SubSeq(s, 1, Min(at) - 1)

\* .replace(/\.(E|ET)$/, '')
stripDotSuffix(s) ==
    IF endsWith(s, <<".", "E">>) THEN dropLast(s, 2)
    ELSE IF endsWith(s, <<".", "E", "T">>) THEN dropLast(s, 3)
    ELSE s

\* .replace(/0$/, '')
stripZero(s) == IF endsWith(s, <<"0">>) THEN dropLast(s, 1) ELSE s

baseAsset(asset) == stripZero(stripDotSuffix(splitHead(asset)))

\* `${strategy.protocol}:${baseAsset}:${strategy.chain}`
protocolAssetChainKey(s) == <<s.protocol, ":", baseAsset(chars(s.asset)), ":", s.chain>>

----------------------------------------------------------------------------
(* Program constants *)

PREFERRED_PROTOCOLS == <<
    <<"a","a","v","e","-","v","3">>,
    <<"c","u","r","v","e">>,
    <<"p","e","n","d","l","e">>,
    <<"f","r","a","x","l","e","n","d">>,
    <<"b","a","l","a","n","c","e","r">>,
    <<"u","n","i","s","w","a","p","-","v","3">>,
    <<"c","o","m","p","o","u","n","d","-","v","3">>,
    <<"e","t","h","e","n","a">>,
    <<"y","e","a","r","n">> >>

MIN_AVG_APY == 5
TOP_LIMIT == 100
MAX_PROTOCOL_WEIGHT_PCT == 20
TARGET_COVERAGE_PCT == 90
MAX_STRATEGIES == 20
PREFERRED_COUNT == 10
OTHER_COUNT == 0
PREFERRED_TARGET == 1
OTHER_TARGET == 0
DEFAULT_TVL == 10000000

EvmChains == <<"ethereum", "arbitrum", "base", "plasma">>

isEVMVault(v) == v = "ethereum-usdt" \/ v \in {"arbitrum-bridge", "base-bridge", "plasma-bridge"}

isEVM(chain) == chain \in {"arbitrum", "ethereum", "base", "plasma"}

----------------------------------------------------------------------------
(* IEEE-style fractions *)

NaN == [n |-> 0, d |-> 0]
Zero == [n |-> 0, d |-> 1]

isNaN(x) == x.d = 0 /\ x.n = 0
isFinite(x) == x.d > 0

\* a / b for two integers
Div(a, b) ==
    IF b # 0 THEN [n |-> a, d |-> b]
    ELSE IF a = 0 THEN NaN
    ELSE [n |-> 1, d |-> 0]

\* x * k for an integer k
Times(x, k) ==
    IF isFinite(x) THEN [n |-> x.n * k, d |-> x.d]
    ELSE IF isNaN(x) \/ k = 0 THEN NaN
    ELSE x

\* x ?? 0 for a number x: NaN is kept
orZeroNullish(x) == x

\* x || 0
orZero(x) == IF isNaN(x) \/ (isFinite(x) /\ x.n = 0) THEN Zero ELSE x

RECURSIVE GCD(_, _)
GCD(a, b) == IF b = 0 THEN a ELSE GCD(b, a % b)

\* the same number in lowest terms
Norm(x) ==
    IF isFinite(x)
    THEN LET g == GCD(IF x.n < 0 THEN -x.n ELSE x.n, x.d)
         IN  [n |-> x.n \div g, d |-> x.d \div g]
    ELSE x

Plus(x, y) ==
    IF isFinite(x) /\ isFinite(y)
    THEN Norm([n |-> x.n * (y.d \div GCD(x.d, y.d)) + y.n * (x.d \div GCD(x.d, y.d)),
               d |-> x.d * (y.d \div GCD(x.d, y.d))])
    ELSE IF isNaN(x) \/ isNaN(y) THEN NaN
    ELSE [n |-> 1, d |-> 0]

One == [n |-> 1, d |-> 1]
Same(x, y) == isFinite(x) /\ isFinite(y) /\ Norm(x) = Norm(y)
AtLeast(x, y) == isFinite(x) /\ isFinite(y) /\ x.n * y.d >= y.n * x.d

RECURSIVE SumWeights(_)
SumWeights(seq) ==
    IF seq = <<>> THEN Zero ELSE Plus(Head(seq).weight, SumWeights(Tail(seq)))

RECURSIVE SumField(_, _)
SumField(seq, key) ==
    IF seq = <<>> THEN 0 ELSE Head(seq)[key] + SumField(Tail(seq), key)

----------------------------------------------------------------------------
(* Sequences *)

RECURSIVE Flat(_)
Flat(seqs) == IF seqs = <<>> THEN <<>> ELSE Head(seqs) \o Flat(Tail(seqs))

\* one step of a stable descending sort: x goes before the first smaller element
insertDesc(sorted, x, key) ==
    LET smaller == {i \in 1..Len(sorted) : sorted[i][key] < x[key]}
        at == IF smaller = {} THEN Len(sorted) + 1 ELSE Min(smaller)
    IN  SubSeq(sorted, 1, at - 1) \o <<x>> \o SubSeq(sorted, at, Len(sorted))

RECURSIVE sortFrom(_, _, _)
sortFrom(sorted, rest, key) ==
    IF rest = <<>> THEN sorted
    ELSE sortFrom(insertDesc(sorted, Head(rest), key), Tail(rest), key)

\* Array.prototype.sort((a, b) => b[key] - a[key])
sortDesc(seq, key) == sortFrom(<<>>, seq, key)

slice(seq, limit) == SubSeq(seq, 1, IF Len(seq) < limit THEN Len(seq) ELSE limit)

----------------------------------------------------------------------------
(* DefiLlamaService.getTopStrategies *)

\* getTopStrategies without the MIN_AVG_APY filter
getTopStrategiesUnfloored(mapped, chain, limit) ==
    LET onChain(s) == s.chain = chain
    IN  slice(sortDesc(SelectSeq(mapped, onChain), "apyMean30d"), limit)

\* filter (apyMean30d >= MIN_AVG_APY), sort by 30d average descending, slice
getTopStrategies(mapped, chain, limit) ==
    LET onChain(s) == s.chain = chain
        valid(s) == s.apyMean30d >= MIN_AVG_APY
    IN  slice(sortDesc(SelectSeq(SelectSeq(mapped, onChain), valid), "apyMean30d"), limit)

\* APYEngine.getVaultAPY: the strategies handed to calculateOptimalWeights
\* number of getTopStrategies calls one getVaultAPY makes, and the chain of the k-th
fetchCount(vault) == IF isEVMVault(vault) THEN Len(EvmChains) ELSE 1
callChain(vault, chain, k) == IF isEVMVault(vault) THEN EvmChains[k] ELSE chain

\* tops[k]: what the k-th getTopStrategies call returned
gatherStrategies(tops, vault) == IF isEVMVault(vault) THEN Flat(tops) ELSE tops[1]

chainForWeights(vault, chain) == IF isEVMVault(vault) THEN "ethereum" ELSE chain

----------------------------------------------------------------------------
(* DefiLlamaService.calculateOptimalWeights *)

includesPreferred(name) ==
    \E k \in 1..Len(PREFERRED_PROTOCOLS) : includes(name, PREFERRED_PROTOCOLS[k])

isPreferred(s) == includesPreferred(toLowerCase(chars(s.protocol)))

boost(s) ==
    [id |-> s.id, chain |-> s.chain, protocol |-> s.protocol, asset |-> s.asset,
     apyMean30d |-> s.apyMean30d, weight |-> s.weight, allocated |-> s.allocated,
     isPreferred |-> isPreferred(s), boostedAPY |-> s.apyMean30d]

boostedStrategies(strats) ==
    sortDesc([i \in 1..Len(strats) |-> boost(strats[i])], "boostedAPY")

\* the loop over preferredStrategies: at most PREFERRED_COUNT, one per key
RECURSIVE preferredLoop(_, _, _)
preferredLoop(rest, acc, used) ==
    IF rest = <<>> \/ Len(acc) >= PREFERRED_COUNT THEN acc
    ELSE LET s == Head(rest)
             key == protocolAssetChainKey(s)
         IN  IF key \in used THEN preferredLoop(Tail(rest), acc, used)
             ELSE preferredLoop(Tail(rest), Append(acc, s), used \cup {key})

\* the shortfall forgotten: every backfill slot counted as open
otherNeededNoShortfall(preferredSelected) == OTHER_COUNT + PREFERRED_COUNT

otherNeeded(preferredSelected) ==
    OTHER_COUNT + (PREFERRED_COUNT - Len(preferredSelected))

\* the loop over otherStrategies: at most `needed`, one per protocol
RECURSIVE otherLoop(_, _, _, _)
otherLoop(rest, acc, used, needed) ==
    IF rest = <<>> \/ Len(acc) >= needed THEN acc
    ELSE LET s == Head(rest)
         IN  IF s.protocol \in used THEN otherLoop(Tail(rest), acc, used, needed)
             ELSE otherLoop(Tail(rest), Append(acc, s), used \cup {s.protocol}, needed)

selectEVM(boosted) ==
    LET pref(s) == s.isPreferred
        other(s) == ~s.isPreferred
        preferredSelected == preferredLoop(SelectSeq(boosted, pref), <<>>, {})
        otherSelected ==
            otherLoop(SelectSeq(boosted, other), <<>>, {}, otherNeeded(preferredSelected))
    IN  preferredSelected \o otherSelected

\* coverage > TARGET_COVERAGE
coverageReachedStrict(totalSelectedAPY, totalPossibleAPY) ==
    LET coverage == Div(totalSelectedAPY, totalPossibleAPY)
    IN  isFinite(coverage) /\ coverage.n * 100 > TARGET_COVERAGE_PCT * coverage.d

\* coverage >= TARGET_COVERAGE
coverageReached(totalSelectedAPY, totalPossibleAPY) ==
    LET coverage == Div(totalSelectedAPY, totalPossibleAPY)
    IN  isFinite(coverage) /\ coverage.n * 100 >= TARGET_COVERAGE_PCT * coverage.d

\* the non-EVM loop: push, then stop at the coverage target or MAX_STRATEGIES
RECURSIVE greedyLoop(_, _, _, _, _)
greedyLoop(boosted, i, acc, totalSelectedAPY, totalPossibleAPY) ==
    IF ~(i <= Len(boosted) /\ Len(acc) < MAX_STRATEGIES) THEN acc
    ELSE LET s == boosted[i]
             total == totalSelectedAPY + s.boostedAPY
         IN  IF coverageReached(total, totalPossibleAPY) THEN Append(acc, s)
             ELSE greedyLoop(boosted, i + 1, Append(acc, s), total, totalPossibleAPY)

selectStandard(boosted) ==
    greedyLoop(boosted, 1, <<>>, 0, SumField(boosted, "boostedAPY"))

selectStrategies(strats, chain) ==
    IF isEVM(chain) THEN selectEVM(boostedStrategies(strats))
    ELSE selectStandard(boostedStrategies(strats))

withWeight(s, w, tvl) ==
    [s EXCEPT !.weight = w, !.allocated = Times(w, tvl)]

\* the group target left out
groupWeightNoTarget(s, groupTotalAPY, target) == Div(s.boostedAPY, groupTotalAPY)

groupWeight(s, groupTotalAPY, target) == Times(Div(s.boostedAPY, groupTotalAPY), target)

weighEVM(sel, tvl) ==
    LET pref(s) == s.isPreferred
        other(s) == ~s.isPreferred
        preferredSelected == SelectSeq(sel, pref)
        otherSelected == SelectSeq(sel, other)
        preferredTotalAPY == SumField(preferredSelected, "boostedAPY")
        otherTotalAPY == SumField(otherSelected, "boostedAPY")
    IN  [i \in 1..Len(preferredSelected) |->
            withWeight(preferredSelected[i],
                       groupWeight(preferredSelected[i], preferredTotalAPY, PREFERRED_TARGET), tvl)]
        \o
        [i \in 1..Len(otherSelected) |->
            withWeight(otherSelected[i],
                       groupWeight(otherSelected[i], otherTotalAPY, OTHER_TARGET), tvl)]

\* weight by the other strategies' share
weighStandardComplement(sel, tvl) ==
    LET totalSelectedAPY == SumField(sel, "boostedAPY")
    IN  [i \in 1..Len(sel) |->
            withWeight(sel[i], Div(totalSelectedAPY - sel[i].boostedAPY, totalSelectedAPY), tvl)]

weighStandard(sel, tvl) ==
    LET totalSelectedAPY == SumField(sel, "boostedAPY")
    IN  [i \in 1..Len(sel) |->
            withWeight(sel[i], Div(sel[i].boostedAPY, totalSelectedAPY), tvl)]

weigh(sel, tvl, chain) ==
    IF isEVM(chain) THEN weighEVM(sel, tvl) ELSE weighStandard(sel, tvl)

\* new Map(weighted.map(s => [s.id, ...])).get(id): the last entry of that id
weightMapGet(weighted, id) ==
    LET at == {i \in 1..Len(weighted) : weighted[i].id = id}
    IN  IF at = {} THEN [weight |-> NaN, allocated |-> NaN]
        ELSE LET i == CHOOSE j \in at : \A k \in at : k <= j
             IN  [weight |-> weighted[i].weight, allocated |-> weighted[i].allocated]

\* only the strategies found in the weight map are returned
mergeWeightsSelectedOnly(strats, weighted) ==
    LET found(s) == \E i \in 1..Len(weighted) : weighted[i].id = s.id
        kept == SelectSeq(strats, found)
    IN  [i \in 1..Len(kept) |->
            LET calculated == weightMapGet(weighted, kept[i].id)
            IN  [kept[i] EXCEPT !.weight = orZero(calculated.weight),
                                !.allocated = orZero(calculated.allocated)]]

mergeWeights(strats, weighted) ==
    [i \in 1..Len(strats) |->
        LET calculated == weightMapGet(weighted, strats[i].id)
        IN  [strats[i] EXCEPT !.weight = orZero(calculated.weight),
                              !.allocated = orZero(calculated.allocated)]]

calculateOptimalWeights(strats, tvl, chain) ==
    IF Len(strats) = 0 THEN <<>>
    ELSE mergeWeights(strats, weigh(selectStrategies(strats, chain), tvl, chain))

----------------------------------------------------------------------------
(* Inputs: a short free list of pools followed by a run of similar pools   *)
(* whose length is near the selection limits of the code.                  *)

AAVE == "aave-v3"
CURVE_DEX == "curve-dex"
MORPHO == "morpho-blue"
FLUID == "fluid-lending"
KAMINO == "kamino-lend"
MARGINFI == "marginfi"

USDC == "USDC"
USDC_E == "USDC.E"
USDCET == "USDCET"
USDT0 == "USDT0"
USDT == "USDT"
USDC_USDT == "USDC-USDT"
DAI == "DAI"

PreferredNames == <<"aave-v3", "curve", "pendle", "fraxlend", "balancer", "uniswap-v3",
                    "compound-v3", "ethena", "yearn">>

Pool(chain, protocol, asset, apy) ==
    [chain |-> chain, protocol |-> protocol, asset |-> asset, apyMean30d |-> apy]

EvmPools ==
    { Pool("ethereum", AAVE, USDC, 8), Pool("ethereum", AAVE, USDC_E, 6),
      Pool("ethereum", AAVE, USDCET, 8), Pool("ethereum", AAVE, USDT0, 5),
      Pool("ethereum", AAVE, USDT, 8), Pool("arbitrum", AAVE, USDC, 5),
      Pool("ethereum", CURVE_DEX, USDC_USDT, 8), Pool("ethereum", MORPHO, USDC, 20),
      Pool("arbitrum", MORPHO, USDT, 5), Pool("base", FLUID, USDC, 5),
      Pool("ethereum", AAVE, USDC, 4), Pool("solana", KAMINO, USDC, 8) }

SolanaPools ==
    { Pool("solana", p, USDC, apy) : p \in {KAMINO, MARGINFI}, apy \in {4, 5, 8, 45} }
    \cup { Pool("ethereum", AAVE, USDC, 8) }

VaultChain(v) == IF v = "ethereum-usdt" THEN "ethereum" ELSE "solana"

FreePools(v) == IF isEVMVault(v) THEN EvmPools ELSE SolanaPools

\* the k-th pool of the run: preferred protocols on distinct chains for the
\* EVM vault, one protocol on the vault's chain otherwise
RunPool(v, k) ==
    IF isEVMVault(v)
    THEN Pool(EvmChains[((k - 1) \div Len(PreferredNames)) + 1],
              PreferredNames[((k - 1) % Len(PreferredNames)) + 1], DAI, 6)
    ELSE Pool(VaultChain(v), KAMINO, USDT, 6)

RunLengths(v) ==
    IF isEVMVault(v)
    THEN {0} \cup {PREFERRED_COUNT + d : d \in -1..MaxOver}
    ELSE {0, 1} \cup {MAX_STRATEGIES + d : d \in -1..(MaxOver + 2)}

FreeLists(v) == UNION { [1..n -> FreePools(v)] : n \in 0..MaxFree }

\* pools.map(pool => ({ id: pool.pool, ..., allocated: 0, weight: 0 }))
toStrategy(pool, id) ==
    [id |-> id, chain |-> pool.chain, protocol |-> pool.protocol, asset |-> pool.asset,
     apyMean30d |-> pool.apyMean30d, weight |-> Zero, allocated |-> Zero]

Mapped(v, free, n) ==
    [i \in 1..(Len(free) + n) |->
        toStrategy(IF i <= Len(free) THEN free[i] ELSE RunPool(v, i - Len(free)), i)]

TVLs == {DEFAULT_TVL, 2500000}
Bumps == {1, 40}
NoPrev == [index |-> 0, selected |-> <<>>, result |-> <<>>]

----------------------------------------------------------------------------
(* State of the engine process: caches, clock, suspended calls *)

VAULT_TTL == 60000
CACHE_TTL == 5 * 60 * 1000

Vaults == {"ethereum-usdt", "solana-usdc"}

\* what the upstream may answer: two pool lists
Feeds == <<
    Mapped("solana-usdc", <<Pool("solana", KAMINO, USDC, 8), Pool("ethereum", AAVE, USDC, 8),
                            Pool("ethereum", MORPHO, USDC, 20)>>, 0),
    Mapped("solana-usdc", <<Pool("solana", KAMINO, USDC, 45), Pool("solana", MARGINFI, USDC, 5),
                            Pool("arbitrum", AAVE, USDC, 6)>>, 0) >>

\* pool lists are held by index: 0 is the empty list
poolList(d) == IF d = 0 THEN <<>> ELSE Feeds[d]

Pending == [done |-> FALSE, top |-> <<>>]
NoCache == [has |-> FALSE, data |-> 0, timestamp |-> 0]
NoAPY == [has |-> FALSE, vault |-> "", chain |-> "", totalTVL |-> 0, strategies |-> <<>>,
          lastUpdate |-> 0]
Idle == [kind |-> "idle", vault |-> "", cached |-> NoCache, rets |-> <<>>,
         startedAt |-> 0, entry |-> NoAPY]
NoFetch == [outcome |-> "none", ret |-> 0]
NoServed == [vault |-> "", startedAt |-> 0, entry |-> NoAPY, value |-> NoAPY,
             recomputed |-> FALSE, requests |-> 0]

EngineAtRest ==
    /\ now = 0
    /\ ticks = 0
    /\ feed = 1
    /\ cache = NoCache
    /\ currentAPYs = [v \in Vaults |-> NoAPY]
    /\ calls = [c \in 1..MaxCalls |-> Idle]
    /\ started = 0
    /\ lastGood = 0
    /\ replaced = [v \in Vaults |-> -1]
    /\ fetched = NoFetch
    /\ served = NoServed

FilterAtRest ==
    /\ fpc = "off"
    /\ raw = <<>>
    /\ chainKey = ""
    /\ eligible = <<>>

NoState == [has |-> FALSE, totalAssets |-> 0, totalShares |-> 0, lastPricePerShare |-> Zero,
            lastUpdateTime |-> 0]
NoRealAPY == [called |-> FALSE, vault |-> "", price |-> Zero, at |-> 0, state |-> NoState,
              value |-> Zero]
NoDecision == [called |-> FALSE, vault |-> "", threshold |-> 0, entry |-> NoAPY, value |-> FALSE]

TrackerAtRest ==
    /\ vaultStates = [v \in Vaults |-> NoState]
    /\ overwritten = [v \in Vaults |-> NoState]
    /\ updates = 0
    /\ realAPY = NoRealAPY
    /\ decision = NoDecision

NoResponse == [handler |-> "", chain |-> "", status |-> 0, error |-> <<>>, data |-> <<>>,
               invoked |-> FALSE, threw |-> {}]

ApiAtRest == response = NoResponse

MaxSockets == 2
MaxIntervals == 2
Sockets == 1..MaxSockets

NoSend == [kind |-> "none", socket |-> 0, rejected |-> FALSE, thrower |-> 0,
           intended |-> {}, reached |-> {}]

WsAtRest ==
    /\ clients = <<>>
    /\ readyState = [ws \in Sockets |-> "none"]
    /\ running = FALSE
    /\ initialSends = {}
    /\ broadcasts = 0
    /\ intervals = 0
    /\ inbox = [ws \in Sockets |-> 0]
    /\ lastSend = NoSend

MaxTxs == 3
Holders == {"alice", "bob"}
Accounts == Holders \cup {"vault"}

NoTx == [op |-> "none", caller |-> "", arg |-> 0, reverted |-> FALSE, preview |-> 0,
         returned |-> 0, transferred |-> 0, feeBefore |-> 0]

VaultAtRest ==
    /\ deployed = "none"
    /\ feeBps = 0
    /\ totalSupply = 0
    /\ balanceOf = [h \in Holders |-> 0]
    /\ tokenOf = [a \in Accounts |-> 0]
    /\ txs = 0
    /\ lastTx = NoTx
    /\ vaultNonces = [h \in Holders |-> 0]
    /\ approved = {}

MaxNonce == 3
MaxHours == 2
Eids == {1}
MsgIds == {"m1", "m2"}
HOUR == 3600

NoMessage == [msgType |-> "PREPARE", srcEid |-> 0, sender |-> "", nonce |-> 0,
              state |-> "None", timestamp |-> 0]

NoReceive == [called |-> FALSE, caller |-> "", srcEid |-> 0, sender |-> "", msgType |-> "",
              msgId |-> "", nonce |-> 0, reverted |-> "", before |-> NoMessage,
              nonceBefore |-> 0, receivedBefore |-> 0, at |-> 0]

CoordAtRest ==
    /\ peers = [e \in Eids |-> ""]
    /\ messages = [m \in MsgIds |-> NoMessage]
    /\ nonces = [e \in Eids |-> 0]
    /\ executionTimeout = HOUR
    /\ blockTime = 0
    /\ lastReceive = NoReceive
    /\ received = [e \in Eids |-> 0]

MaxRouterHours == 2
StrategyIds == {"s1"}

NoStrategy == [adapter |-> "", cap |-> 0, allocated |-> 0, lastRebalance |-> 0, cooldown |-> 0,
               active |-> FALSE, emergencyExit |-> FALSE]

NoCall == [op |-> "none", id |-> "", amount |-> 0, reverted |-> "", before |-> NoStrategy]

RouterAtRest ==
    /\ strategyTable = [id \in StrategyIds |-> NoStrategy]
    /\ routerTime = HOUR
    /\ lastCall = NoCall

MaxRequests == 3
NoStore == [seq |-> 0, over |-> 0]

FetchAtRest ==
    /\ requests = <<>>
    /\ lastStore = NoStore

NoCheck == [called |-> FALSE, threshold |-> 0, reply |-> "", totalDrift |-> [n |-> 0, d |-> 1],
            value |-> FALSE]

OperatorAtRest == rebalanceCheck = NoCheck

LaterAtRest ==
    WsAtRest /\ VaultAtRest /\ CoordAtRest /\ RouterAtRest /\ FetchAtRest /\ OperatorAtRest

RestAtRest == FilterAtRest /\ TrackerAtRest /\ ApiAtRest /\ LaterAtRest

PipeAtRest ==
    /\ pc = "off"
    /\ vaultId = ""
    /\ pools = <<>>
    /\ strategies = <<>>
    /\ totalTVL = 0
    /\ selected = <<>>
    /\ result = <<>>
    /\ prev = NoPrev

----------------------------------------------------------------------------
(* The allocation pipeline of one getVaultAPY computation *)

Init ==
    /\ pc = "mapped"
    /\ vaultId \in {"ethereum-usdt", "solana-usdc"}
    /\ \E free \in FreeLists(vaultId), n \in RunLengths(vaultId) :
          pools = Mapped(vaultId, free, n)
    /\ strategies = <<>>
    /\ totalTVL = 0
    /\ selected = <<>>
    /\ result = <<>>
    /\ prev = NoPrev
    /\ EngineAtRest
    /\ RestAtRest

\* getVaultAPY lines 86-100
Gather ==
    /\ pc = "mapped"
    /\ strategies' = gatherStrategies(
                        [k \in 1..fetchCount(vaultId) |->
                            getTopStrategies(pools, callChain(vaultId, VaultChain(vaultId), k),
                                             TOP_LIMIT)], vaultId)
    /\ pc' = "gathered"
    /\ UNCHANGED <<vaultId, pools, totalTVL, selected, result, prev, engineVars, restVars>>

\* getVaultAPY lines 102-108
Calculate ==
    /\ pc = "gathered"
    /\ \E tvl \in TVLs :
          /\ totalTVL' = tvl
          /\ selected' = IF Len(strategies) = 0 THEN <<>>
                         ELSE selectStrategies(strategies, chainForWeights(vaultId, VaultChain(vaultId)))
          /\ result' = calculateOptimalWeights(strategies, tvl,
                                               chainForWeights(vaultId, VaultChain(vaultId)))
    /\ pc' = "weighted"
    /\ UNCHANGED <<vaultId, pools, strategies, prev, engineVars, restVars>>

\* a second call whose input differs in one strategy's 30-day mean APY
Recalculate ==
    /\ pc = "weighted"
    /\ Len(strategies) <= MaxBumpLen
    /\ \E i \in 1..Len(strategies), d \in Bumps :
          LET bumped == [strategies EXCEPT ![i].apyMean30d = @ + d]
              chain == chainForWeights(vaultId, VaultChain(vaultId))
          IN  /\ strategies' = bumped
              /\ selected' = selectStrategies(bumped, chain)
              /\ result' = calculateOptimalWeights(bumped, totalTVL, chain)
              /\ prev' = [index |-> i, selected |-> selected, result |-> result]
    /\ pc' = "compared"
    /\ UNCHANGED <<vaultId, pools, totalTVL, engineVars, restVars>>

Next == Gather \/ Calculate \/ Recalculate

Spec == Init /\ [][Next]_vars

----------------------------------------------------------------------------
(* The engine process: getVaultAPY and fetchPools calls that overlap at    *)
(* their awaits.  What a call runs between two awaits is one action.       *)

\* a window that still counts the instant it closes
cacheFreshInclusive(c, t) == c.has /\ t - c.timestamp <= CACHE_TTL

\* cached && Date.now() - cached.timestamp < this.CACHE_TTL
cacheFresh(c, t) == c.has /\ t - c.timestamp < CACHE_TTL

\* cached && Date.now() - cached.lastUpdate < 60000
apyFresh(e, t) == e.has /\ t - e.lastUpdate < VAULT_TTL

\* cached?.data || []
fallback(cached) == IF cached.has THEN cached.data ELSE 0

\* getVaultAPY from line 102 on, for a vault with no recorded state
computeVaultAPY(v, tops, t) ==
    LET chain == VaultChain(v)
        top == gatherStrategies(tops, v)
    IN  [has |-> TRUE, vault |-> v, chain |-> chain, totalTVL |-> DEFAULT_TVL,
         strategies |-> calculateOptimalWeights(top, DEFAULT_TVL, chainForWeights(v, chain)),
         lastUpdate |-> t]

\* getTopStrategies on the pools its fetchPools call returned
topOf(v, k, data) == getTopStrategies(poolList(data), callChain(v, VaultChain(v), k), TOP_LIMIT)

\* upstream requests not yet answered
RECURSIVE openRequests(_)
openRequests(c) ==
    IF c = 0 THEN 0
    ELSE Cardinality({k \in 1..Len(calls[c].rets) : ~calls[c].rets[k].done})
         + openRequests(c - 1)

inFlight == openRequests(MaxCalls)

freeSlot == Min({c \in 1..MaxCalls : calls[c].kind = "idle"})

\* a store that writes the new plan into the entry it finds
StoreInPlace(v, value) ==
    /\ currentAPYs' = [currentAPYs EXCEPT ![v] =
                           IF @.has THEN [@ EXCEPT !.strategies = value.strategies] ELSE value]
    /\ replaced' = [replaced EXCEPT ![v] =
                        IF currentAPYs[v].has THEN currentAPYs[v].lastUpdate ELSE -1]

\* this.currentAPYs.set(vaultId, vaultAPY), with the entry it replaces noted
Store(v, value) ==
    /\ currentAPYs' = [currentAPYs EXCEPT ![v] = value]
    /\ replaced' = [replaced EXCEPT ![v] =
                        IF currentAPYs[v].has THEN currentAPYs[v].lastUpdate ELSE -1]

\* APYEngine.getVaultAPY up to its first await that suspends
GetVaultAPY(v) ==
    /\ started < MaxCalls
    /\ apyFresh(currentAPYs[v], now) \/ cacheFresh(cache, now)
         \/ inFlight + fetchCount(v) <= MaxInFlight
    /\ started' = started + 1
    /\ IF apyFresh(currentAPYs[v], now)
       THEN /\ served' = [vault |-> v, startedAt |-> now, entry |-> currentAPYs[v],
                           value |-> currentAPYs[v], recomputed |-> FALSE, requests |-> 0]
            /\ UNCHANGED <<currentAPYs, replaced, calls>>
       ELSE IF cacheFresh(cache, now)
       THEN LET value == computeVaultAPY(v, [k \in 1..fetchCount(v) |->
                                                    topOf(v, k, cache.data)], now)
            IN  /\ Store(v, value)
                /\ served' = [vault |-> v, startedAt |-> now, entry |-> currentAPYs[v],
                               value |-> value, recomputed |-> TRUE, requests |-> 0]
                /\ UNCHANGED calls
       ELSE /\ calls' = [calls EXCEPT ![freeSlot] =
                            [kind |-> "vault", vault |-> v, cached |-> cache,
                             rets |-> [k \in 1..fetchCount(v) |-> Pending],
                             startedAt |-> now, entry |-> currentAPYs[v]]]
            /\ UNCHANGED <<currentAPYs, replaced, served>>
    /\ UNCHANGED <<now, ticks, feed, cache, lastGood, fetched, pipeVars, restVars>>

\* DefiLlamaService.fetchPools called by the scheduled job and at startup
FetchPools ==
    /\ started < MaxCalls
    /\ cacheFresh(cache, now) \/ inFlight + 1 <= MaxInFlight
    /\ started' = started + 1
    /\ IF cacheFresh(cache, now)
       THEN /\ fetched' = [outcome |-> "cached", ret |-> cache.data]
            /\ UNCHANGED calls
       ELSE /\ calls' = [calls EXCEPT ![freeSlot] =
                            [kind |-> "fetch", vault |-> "", cached |-> cache,
                             rets |-> <<Pending>>, startedAt |-> now, entry |-> NoAPY]]
            /\ UNCHANGED fetched
    /\ UNCHANGED <<now, ticks, feed, cache, currentAPYs, lastGood, replaced, served, pipeVars, restVars>>

\* the upstream answers the k-th request of call c (ok) or the request fails;
\* fetchPools returns, and the caller runs on if that was its last await
Respond(c, k, ok) ==
    /\ calls[c].kind # "idle"
    /\ k \in 1..Len(calls[c].rets)
    /\ calls[c].rets[k] = Pending
    /\ LET ret == IF ok THEN feed ELSE fallback(calls[c].cached)
           v == calls[c].vault
           rets == [calls[c].rets EXCEPT ![k] =
                       [done |-> TRUE,
                        top |-> IF calls[c].kind = "vault" THEN topOf(v, k, ret) ELSE <<>>]]
           done == \A j \in 1..Len(rets) : rets[j].done
       IN  /\ cache' = IF ok THEN [has |-> TRUE, data |-> feed, timestamp |-> now] ELSE cache
           /\ lastGood' = IF ok THEN feed ELSE lastGood
           /\ fetched' = [outcome |-> IF ok THEN "ok" ELSE "failed", ret |-> ret]
           /\ calls' = [calls EXCEPT ![c] = IF done THEN Idle ELSE [@ EXCEPT !.rets = rets]]
           /\ IF done /\ calls[c].kind = "vault"
              THEN LET value == computeVaultAPY(v, [j \in 1..Len(rets) |-> rets[j].top], now)
                   IN  /\ Store(v, value)
                       /\ served' = [vault |-> v, startedAt |-> calls[c].startedAt,
                                      entry |-> calls[c].entry, value |-> value,
                                      recomputed |-> TRUE, requests |-> Len(rets)]
              ELSE UNCHANGED <<currentAPYs, replaced, served>>
    /\ UNCHANGED <<now, ticks, feed, started, pipeVars, restVars>>

ClockSteps == {1, VAULT_TTL - 1, CACHE_TTL - 1}

Tick ==
    /\ ticks < MaxTicks
    /\ ticks' = ticks + 1
    /\ \E dt \in ClockSteps : now' = now + dt
    /\ UNCHANGED <<feed, cache, currentAPYs, calls, started, lastGood, replaced, fetched,
                   served, pipeVars, restVars>>

\* the upstream's pool data changes
FeedChange ==
    /\ feed < Len(Feeds)
    /\ feed' = feed + 1
    /\ UNCHANGED <<now, ticks, cache, currentAPYs, calls, started, lastGood, replaced,
                   fetched, served, pipeVars, restVars>>

EngineNext ==
    \/ \E v \in Vaults : GetVaultAPY(v)
    \/ FetchPools
    \/ \E c \in 1..MaxCalls, k \in 1..Len(EvmChains), ok \in BOOLEAN : Respond(c, k, ok)
    \/ Tick
    \/ FeedChange

EngineInit ==
    /\ PipeAtRest
    /\ EngineAtRest
    /\ RestAtRest

SpecEngine == EngineInit /\ [][EngineNext]_vars

\* The process keeps running: time passes and the scheduled fetch comes round.
\* Nothing obliges the upstream to answer a request.
SpecEngineLive ==
    /\ EngineInit
    /\ [][EngineNext]_vars
    /\ WF_vars(Tick)
    /\ WF_vars(FetchPools)

----------------------------------------------------------------------------
(* Properties of the allocation pipeline *)

Weighted == pc \in {"weighted", "compared"}
PolicyA == isEVM(chainForWeights(vaultId, VaultChain(vaultId)))
PolicyB == ~PolicyA

selectedIds == {selected[i].id : i \in 1..Len(selected)}
PreferredSelected == {i \in 1..Len(selected) : selected[i].isPreferred}
OtherSelected == {i \in 1..Len(selected) : ~selected[i].isPreferred}

\* C1: the returned weights sum to 1 when at least one strategy was selected
\* and to 0 when none was.
C1_WeightsSumToOne ==
    Weighted =>
        Same(SumWeights(result), IF selected # <<>> THEN One ELSE Zero)

\* the base asset as the comment above the key documents it: pair tail removed,
\* then a suffix .E or ET, then a trailing 0
documentedBaseAsset(asset) ==
    LET head == splitHead(asset)
        bare == IF endsWith(head, <<".", "E">>) \/ endsWith(head, <<"E", "T">>)
                THEN dropLast(head, 2) ELSE head
    IN  stripZero(bare)

\* C2: under Policy A no two selected preferred strategies share the same
\* (protocol, base asset, chain) triple.
C2_PreferredTriplesDistinct ==
    (Weighted /\ PolicyA) =>
        \A i, j \in PreferredSelected :
            i # j =>
                ~(/\ selected[i].protocol = selected[j].protocol
                  /\ selected[i].chain = selected[j].chain
                  /\ documentedBaseAsset(chars(selected[i].asset))
                        = documentedBaseAsset(chars(selected[j].asset)))

resultOf(id) == result[CHOOSE i \in 1..Len(result) : result[i].id = id]

RECURSIVE SumWeightsOf(_)
SumWeightsOf(ids) ==
    IF ids = {} THEN Zero
    ELSE LET id == CHOOSE x \in ids : TRUE
         IN  Plus(resultOf(id).weight, SumWeightsOf(ids \ {id}))

positionOf(id) == CHOOSE i \in 1..Len(strategies) : strategies[i].id = id

\* s is ranked before u: larger 30-day mean APY, ties by input order
rankedBefore(s, u) ==
    \/ s.apyMean30d > u.apyMean30d
    \/ s.apyMean30d = u.apyMean30d /\ positionOf(s.id) < positionOf(u.id)

cumulativeAPY(k) == SumField(SubSeq(selected, 1, k), "apyMean30d")

C6_OneEntryPerInput ==
    Weighted =>
        /\ Len(result) = Len(strategies)
        /\ \A i \in 1..Len(result) :
              /\ result[i].id = strategies[i].id
              /\ result[i].protocol = strategies[i].protocol
              /\ result[i].asset = strategies[i].asset
              /\ result[i].chain = strategies[i].chain
              /\ result[i].apyMean30d = strategies[i].apyMean30d
              /\ result[i].id \notin selectedIds =>
                    result[i].weight = Zero /\ result[i].allocated = Zero
              /\ Same(result[i].allocated, Times(result[i].weight, totalTVL))

C6_Witness ==
    /\ Weighted
    /\ \E i, j \in 1..Len(result) :
          /\ result[i].id \notin selectedIds /\ result[i].weight = Zero
          /\ result[j].id \in selectedIds /\ result[j].weight.n > 0
          /\ result[j].allocated.n > 0

protocolAPY(k) ==
    LET same(s) == s.protocol = selected[k].protocol
    IN  SumField(SelectSeq(SubSeq(selected, 1, k), same), "boostedAPY")

\* C7: a strategy other than the first is selected only if its protocol's
\* share of the selected APY, with it added, stays within MAX_PROTOCOL_WEIGHT.
C7_ProtocolCapEnforced ==
    Weighted =>
        \A k \in 2..Len(selected) :
            100 * protocolAPY(k)
                <= MAX_PROTOCOL_WEIGHT_PCT * SumField(SubSeq(selected, 1, k), "boostedAPY")

sameSelection == {prev.selected[i].id : i \in 1..Len(prev.selected)} = selectedIds

\* C8: of two calls that differ only in one strategy's 30-day mean APY being
\* larger in the second and that select the same strategies, the second gives
\* that strategy a weight at least as large.
C8_WeightMonotone ==
    (pc = "compared" /\ sameSelection) =>
        AtLeast(result[prev.index].weight, prev.result[prev.index].weight)

C8_Witness ==
    /\ pc = "compared" /\ sameSelection
    /\ Len(selected) >= 2
    /\ ~AtLeast(prev.result[prev.index].weight, result[prev.index].weight)

----------------------------------------------------------------------------
(* The engine's vault cache and the pool cache under overlapping calls *)

\* the call last answered started inside the freshness window of its entry
servedInWindow ==
    /\ served.vault # ""
    /\ served.entry.has
    /\ served.startedAt - served.entry.lastUpdate < VAULT_TTL

\* C9: a getVaultAPY call made within 60 s of the vault's cached entry returns
\* that entry unchanged, recomputes nothing and asks the feed for nothing, and
\* two successive stores of a vault's entry are at least one freshness window
\* apart.
C9_FreshEntryServedOncePerWindow ==
    /\ servedInWindow =>
          /\ served.value = served.entry
          /\ ~served.recomputed
          /\ served.requests = 0
    /\ \A v \in Vaults :
          (currentAPYs[v].has /\ replaced[v] >= 0) =>
              currentAPYs[v].lastUpdate - replaced[v] >= VAULT_TTL

\* C10: a fetchPools call whose upstream request failed returns the pool list
\* of the last successful fetch, or the empty list if none has succeeded.
C10_FailureReturnsLastGood ==
    fetched.outcome = "failed" => fetched.ret = lastGood

\* the pool cache entry is less than CACHE_TTL old
windowOpen == cache.has /\ now - cache.timestamp < CACHE_TTL

C12_SingleRequestInFlight == inFlight <= 1

\* C13: every call that waits on the feed eventually returns, even if the
\* upstream never answers.
C13_EveryFetchReturns ==
    \A c \in 1..MaxCalls : (calls[c].kind # "idle") ~> (calls[c].kind = "idle")

----------------------------------------------------------------------------
(* DefiLlamaService.getPoolsForChain and isStablePair *)

upperOf == [c \in {Lower[k] : k \in 1..26} |-> Upper[CHOOSE k \in 1..26 : Lower[k] = c]]

toUpperCase(s) ==
    [i \in 1..Len(s) |-> IF s[i] \in DOMAIN upperOf THEN upperOf[s[i]] ELSE s[i]]

\* String.prototype.trim, for the blank
trim(s) ==
    LET solid == {i \in 1..Len(s) : s[i] # " "}
    IN  IF solid = {} THEN <<>>
        ELSE SubSeq(s, Min(solid), CHOOSE i \in solid : \A j \in solid : j <= i)

\* s.split('-')
RECURSIVE split(_)
split(s) ==
    LET at == {i \in 1..Len(s) : s[i] = "-"}
    IN  IF at = {} THEN <<s>>
        ELSE <<SubSeq(s, 1, Min(at) - 1)>> \o split(SubSeq(s, Min(at) + 1, Len(s)))

stablecoins == <<
    <<"U","S","D","T">>, <<"U","S","D","C">>, <<"D","A","I">>, <<"U","S","D","T","0">>, <<"U","S","D","S">>, <<"F","R","A","X">>,
    <<"U","S","D","P">>, <<"G","U","S","D">>, <<"S","U","S","D">>, <<"U","S","D","E">>, <<"U","S","D","1">>, <<"L","U","S","D">>,
    <<"U","S","D","M">>, <<"U","S","D","B">>, <<"F","D","U","S","D">>, <<"P","Y","U","S","D">>, <<"C","U","S","D">>, <<"U","S","D","X">> >>

excludeTokens == <<
    <<"D","A","I","L","Y","B","E","T">>, <<"B","T","C">>, <<"E","T","H">>, <<"S","O","L">>, <<"B","N","B">>, <<"M","A","T","I","C">>,
    <<"A","V","A","X">>, <<"A","R","B">>, <<"O","P">>, <<"L","I","N","K">>, <<"U","N","I">>, <<"A","A","V","E">>,
    <<"C","R","V">>, <<"S","U","S","H","I">>, <<"C","O","M","P">>, <<"Y","F","I">>, <<"M","K","R">>, <<"S","N","X">>,
    <<"B","A","L">>, <<"L","D","O">>, <<"R","P","L">>, <<"R","E","T","H">>, <<"W","E","T","H">>, <<"W","B","T","C">>,
    <<"S","T","E","T","H">>, <<"W","S","T","E","T","H">>, <<"R","N","D","R">>, <<"P","E","P","E">>, <<"S","H","I","B">>, <<"D","O","G","E">>,
    <<"X","R","P">> >>

CHAIN_CONFIGS == <<
    [chain |-> "arbitrum", assets |-> <<<<"U","S","D","T","0">>, <<"U","S","D","T">>, <<"U","S","D","C">>, <<"D","A","I">>>>,
     chainFilter |-> <<"A","r","b","i","t","r","u","m">>],
    [chain |-> "ethereum", assets |-> <<<<"U","S","D","T">>, <<"U","S","D","C">>, <<"D","A","I">>, <<"U","S","D","E">>, <<"F","R","A","X">>>>,
     chainFilter |-> <<"E","t","h","e","r","e","u","m">>],
    [chain |-> "base", assets |-> <<<<"U","S","D","C">>, <<"U","S","D","T">>, <<"D","A","I">>>>,
     chainFilter |-> <<"B","a","s","e">>],
    [chain |-> "plasma", assets |-> <<<<"U","S","D","C">>, <<"U","S","D","T">>>>,
     chainFilter |-> <<"P","l","a","s","m","a">>],
    [chain |-> "solana", assets |-> <<<<"U","S","D","C">>, <<"U","S","D","T">>>>,
     chainFilter |-> <<"S","o","l","a","n","a">>],
    [chain |-> "bsc", assets |-> <<<<"U","S","D","T">>, <<"U","S","D","C">>, <<"B","U","S","D">>>>,
     chainFilter |-> <<"B","S","C">>] >>

MIN_TVL == 200000

\* token === stable || token === stable + '.E' || token === stable + 'ET'
isExactStablecoin(token) ==
    \E k \in 1..Len(stablecoins) :
        \/ token = stablecoins[k]
        \/ token = stablecoins[k] \o <<".", "E">>
        \/ token = stablecoins[k] \o <<"E", "T">>

isStablePair(symbol) ==
    LET upperSymbol == trim(toUpperCase(symbol))
        tokens == split(upperSymbol)
    IN  IF \E k \in 1..Len(excludeTokens) : includes(upperSymbol, excludeTokens[k])
        THEN FALSE
        ELSE IF includes(upperSymbol, <<"-">>)
        THEN \A k \in 1..Len(tokens) : isExactStablecoin(trim(tokens[k]))
        ELSE isExactStablecoin(upperSymbol)

\* the minimum itself left out
hasMinTVLExclusive(pool) == pool.tvlUsd > MIN_TVL

hasMinTVL(pool) == pool.tvlUsd >= MIN_TVL

\* the callback of allPools.filter
passesFilter(pool, config) ==
    LET matchesChain == includes(toLowerCase(chars(pool.chain)), toLowerCase(config.chainFilter))
        matchesAsset == \E k \in 1..Len(config.assets) :
                            includes(toUpperCase(chars(pool.symbol)), toUpperCase(config.assets[k]))
        isStablecoin == pool.stablecoin = TRUE
        hasPositiveAPY == pool.apy > 0
    IN  matchesChain /\ matchesAsset /\ isStablecoin /\ isStablePair(chars(pool.symbol))
        /\ hasPositiveAPY /\ hasMinTVL(pool)

getPoolsForChain(allPools, chain) ==
    LET found == {k \in 1..Len(CHAIN_CONFIGS) : CHAIN_CONFIGS[k].chain = chain}
    IN  IF found = {} THEN <<>>
        ELSE LET config == CHAIN_CONFIGS[Min(found)]
                 keep(pool) == passesFilter(pool, config)
             IN  SelectSeq(allPools, keep)

\* pools of the feed: one that passes for its chain, and pools that differ
\* from it in one respect
RawPool(chain, project, symbol, tvlUsd, apy, apyMean30d, stablecoin) ==
    [pool |-> 0, chain |-> chain, project |-> project, symbol |-> symbol, tvlUsd |-> tvlUsd,
     apy |-> apy, apyBase |-> 0, apyMean30d |-> apyMean30d, stablecoin |-> stablecoin]

RawPools ==
    { RawPool(c, KAMINO, USDC, MIN_TVL, 8, 8, TRUE) :
        c \in {"Solana", "Ethereum", "Arbitrum Nova", "Polygon", "BSC"} }
    \cup { RawPool("Solana", KAMINO, s, 5000000, 8, 8, TRUE) :
        s \in {"usdc", " USDC", "USDC-USDT", "USDC - USDT", "USDC-WETH", "SUSDC", "USDCET",
               "USDC.E", "FRAX", "DAI", "WBTC"} }
    \cup { RawPool("Ethereum", AAVE, s, 5000000, 8, 8, TRUE) : s \in {"FRAX", "USDE", "BUSD"} }
    \cup { RawPool("Solana", KAMINO, USDC, MIN_TVL - 1, 8, 8, TRUE),
           RawPool("Solana", KAMINO, USDC, 5000000, 0, 8, TRUE),
           RawPool("Solana", KAMINO, USDC, 5000000, 8, 8, FALSE) }

ChainKeys == {"arbitrum", "ethereum", "base", "plasma", "solana", "bsc", "polygon"}

\* feed lists of up to MaxRaw pools; pool.pool is the place in the feed
RawLists ==
    UNION { { [i \in 1..n |-> [f[i] EXCEPT !.pool = i]] : f \in [1..n -> RawPools] } :
            n \in 0..MaxRaw }

FilterInit ==
    /\ fpc = "raw"
    /\ raw \in RawLists
    /\ chainKey \in ChainKeys
    /\ eligible = <<>>
    /\ PipeAtRest
    /\ EngineAtRest
    /\ TrackerAtRest
    /\ ApiAtRest
    /\ LaterAtRest

GetPoolsForChain ==
    /\ fpc = "raw"
    /\ eligible' = getPoolsForChain(raw, chainKey)
    /\ fpc' = "filtered"
    /\ UNCHANGED <<raw, chainKey, pipeVars, engineVars, trackerVars, apiVars, laterVars>>

SpecFilter == FilterInit /\ [][GetPoolsForChain]_vars

\* the forms of a whitelisted stablecoin: bare, or with the suffix .E or ET
stableForms ==
    UNION { { stablecoins[k], stablecoins[k] \o <<".", "E">>, stablecoins[k] \o <<"E", "T">> } :
            k \in 1..Len(stablecoins) }

\* every '-'-separated token of the symbol is a whitelisted stablecoin form and
\* no excluded token occurs in the symbol
validStablePair(symbol) ==
    LET upperSymbol == trim(toUpperCase(symbol))
        tokens == split(upperSymbol)
    IN  /\ \A k \in 1..Len(tokens) : trim(tokens[k]) \in stableForms
        /\ ~\E k \in 1..Len(excludeTokens) : includes(upperSymbol, excludeTokens[k])

\* the eligibility conditions of a pool under a chain configuration
meetsAll(pool, config) ==
    /\ includes(toLowerCase(chars(pool.chain)), toLowerCase(config.chainFilter))
    /\ \E k \in 1..Len(config.assets) :
          includes(toUpperCase(chars(pool.symbol)), config.assets[k])
    /\ pool.stablecoin = TRUE
    /\ validStablePair(chars(pool.symbol))
    /\ pool.apy > 0
    /\ pool.tvlUsd >= 200000

\* C19: getPoolsForChain returns a pool of the feed if and only if the chain
\* key has a configuration and the pool meets every eligibility condition
\* under it (chain filter as a case-insensitive substring, a configured asset
\* ticker in the symbol, stablecoin flag, valid stable pair, apy > 0, tvlUsd
\* >= 200000); the pools returned keep the order of the feed.
C19_EligibleIffAllConditions ==
    fpc = "filtered" =>
        LET configured == {k \in 1..Len(CHAIN_CONFIGS) : CHAIN_CONFIGS[k].chain = chainKey}
        IN  /\ \A i \in 1..Len(raw) :
                  (\E j \in 1..Len(eligible) : eligible[j] = raw[i])
                      <=> \E k \in configured : meetsAll(raw[i], CHAIN_CONFIGS[k])
            /\ \A i, j \in 1..Len(eligible) : i < j => eligible[i].pool < eligible[j].pool
            /\ \A j \in 1..Len(eligible) : \E i \in 1..Len(raw) : raw[i] = eligible[j]

C19_Witness ==
    /\ fpc = "filtered"
    /\ chainKey = "solana"
    /\ Len(raw) = 2
    /\ Len(eligible) = 1
    /\ eligible[1].tvlUsd = MIN_TVL
    /\ \E i \in 1..2 : raw[i].tvlUsd = MIN_TVL - 1

----------------------------------------------------------------------------
(* Signed fractions: JavaScript number arithmetic with its IEEE results.   *)
(* d = 0 with n = 1 is Infinity, with n = -1 is -Infinity.                 *)

Infinity == [n |-> 1, d |-> 0]
Abs(k) == IF k < 0 THEN -k ELSE k
Sign(k) == IF k < 0 THEN -1 ELSE IF k > 0 THEN 1 ELSE 0
Int2F(k) == [n |-> k, d |-> 1]
FNeg(x) == [n |-> -x.n, d |-> x.d]
FAbs(x) == [n |-> Abs(x.n), d |-> x.d]

\* x + y
FAdd(x, y) ==
    IF isNaN(x) \/ isNaN(y) THEN NaN
    ELSE IF isFinite(x) /\ isFinite(y) THEN Plus(x, y)
    ELSE IF isFinite(x) THEN y
    ELSE IF isFinite(y) \/ x.n = y.n THEN x
    ELSE NaN

FSub(x, y) == FAdd(x, FNeg(y))

\* x * y, cancelling before it multiplies
FMul(x, y) ==
    IF isNaN(x) \/ isNaN(y) THEN NaN
    ELSE IF isFinite(x) /\ isFinite(y)
    THEN LET g1 == GCD(Abs(x.n), y.d)
             g2 == GCD(Abs(y.n), x.d)
         IN  Norm([n |-> (x.n \div g1) * (y.n \div g2), d |-> (x.d \div g2) * (y.d \div g1)])
    ELSE IF x.n = 0 \/ y.n = 0 THEN NaN
    ELSE [n |-> Sign(x.n) * Sign(y.n), d |-> 0]

\* x / y
FDiv(x, y) ==
    IF isNaN(x) \/ isNaN(y) THEN NaN
    ELSE IF isFinite(y) /\ y.n # 0
    THEN FMul(x, [n |-> Sign(y.n) * y.d, d |-> Abs(y.n)])
    ELSE IF isFinite(y)
    THEN (IF x.n = 0 THEN NaN ELSE [n |-> Sign(x.n), d |-> 0])
    ELSE IF isFinite(x) THEN Zero
    ELSE NaN

\* x > y, false when either is NaN
FGreater(x, y) ==
    /\ ~isNaN(x) /\ ~isNaN(y)
    /\ IF isFinite(x) /\ isFinite(y) THEN x.n * y.d > y.n * x.d
       ELSE IF isFinite(x) THEN y.n < 0
       ELSE IF isFinite(y) THEN x.n > 0
       ELSE x.n > y.n

----------------------------------------------------------------------------
(* APYEngine: vault snapshots, realized and model APY *)

SECONDS_PER_YEAR == 365 * 24 * 60 * 60
FEE_BPS == 10

\* APYEngine.calculateRealAPY at time t; the annualised rate is computed as
\* rate * (secondsPerYear / timeDelta) * 100, the same number as the code's
\* (rate / timeDelta) * secondsPerYear * 100
calculateRealAPY(state, currentPricePerShare, t) ==
    IF ~state.has THEN Zero
    ELSE LET timeDelta == Norm(Div(t - state.lastUpdateTime, 1000))
         IN  IF timeDelta.n = 0 THEN Zero
             ELSE LET priceChange == FSub(currentPricePerShare, state.lastPricePerShare)
                      priceChangeRate == FDiv(priceChange, state.lastPricePerShare)
                  IN  FMul(FMul(priceChangeRate, FDiv(Int2F(SECONDS_PER_YEAR), timeDelta)),
                           Int2F(100))

\* calculateNetAPY charging no fee
calculateNetAPYNoFee(grossAPY) == Int2F(grossAPY)

\* DefiLlamaService.calculateNetAPY(grossAPY, feeBps = 10)
calculateNetAPY(grossAPY) == FMul(Int2F(grossAPY), FSub(One, Div(FEE_BPS, 10000)))

\* a || b || 0 on numbers where 0 stands for a missing value
firstNonZero(a, b) == IF a # 0 THEN a ELSE b

\* the object getTopStrategies builds from a pool
strategyOf(pool, chain) ==
    [id |-> pool.pool, chain |-> chain, protocol |-> pool.project, asset |-> pool.symbol,
     apyGross |-> pool.apy, apyNet |-> calculateNetAPY(pool.apy),
     apyMean30d |-> firstNonZero(pool.apyMean30d, pool.apyBase),
     weight |-> Zero, allocated |-> Zero]

\* DefiLlamaService.getTopStrategies on the pools fetchPools returned
getTopStrategiesOf(allPools, chain, limit) ==
    LET filtered == getPoolsForChain(allPools, chain)
    IN  getTopStrategies([i \in 1..Len(filtered) |-> strategyOf(filtered[i], chain)],
                         chain, limit)

\* APYEngine.calculateModelAPY
RECURSIVE calculateModelAPY(_)
calculateModelAPY(strats) ==
    IF strats = <<>> THEN Zero
    ELSE FAdd(FMul(Head(strats).apyNet, Head(strats).weight), calculateModelAPY(Tail(strats)))

RECURSIVE totalAllocatedOf(_)
totalAllocatedOf(strats) ==
    IF strats = <<>> THEN Zero
    ELSE FAdd(Head(strats).allocated, totalAllocatedOf(Tail(strats)))

\* Number(state.totalAssets) / 1e6, a whole number for the snapshots of the model
tvlOf(state) == IF state.has THEN state.totalAssets \div 1000000 ELSE DEFAULT_TVL

currentPPSOf(state) ==
    IF state.has /\ state.totalShares > 0 THEN Norm(Div(state.totalAssets, state.totalShares))
    ELSE One

\* APYEngine.getVaultAPY from line 86 on, the feed answering allPools
vaultAPYOf(v, allPools, state, t) ==
    LET chain == VaultChain(v)
        tops == [k \in 1..fetchCount(v) |->
                    getTopStrategiesOf(allPools, callChain(v, chain, k), TOP_LIMIT)]
        optimizedStrategies ==
            calculateOptimalWeights(gatherStrategies(tops, v), tvlOf(state),
                                    chainForWeights(v, chain))
    IN  [has |-> TRUE, vault |-> v, chain |-> chain,
         apyModel |-> calculateModelAPY(optimizedStrategies),
         apyReal |-> calculateRealAPY(state, currentPPSOf(state), t),
         totalAllocated |-> totalAllocatedOf(optimizedStrategies),
         totalTVL |-> tvlOf(state),
         strategies |-> optimizedStrategies,
         lastUpdate |-> t]

\* triggerRebalanceIfNeeded with apyDiff >= threshold for its comparison
triggerRebalanceInclusive(entry, threshold) ==
    IF ~entry.has THEN FALSE
    ELSE ~FGreater(Int2F(threshold), FAbs(FSub(entry.apyModel, entry.apyReal)))

\* APYEngine.triggerRebalanceIfNeeded
triggerRebalanceIfNeeded(entry, threshold) ==
    IF ~entry.has THEN FALSE
    ELSE FGreater(FAbs(FSub(entry.apyModel, entry.apyReal)), Int2F(threshold))

\* snapshots handed to updateVaultState: total assets, total shares (raw
\* units, 6 decimals) and the price per share; the last one carries a price
\* that is not assets / shares
Snapshot(totalAssets, totalShares, pricePerShare) ==
    [totalAssets |-> totalAssets, totalShares |-> totalShares, pricePerShare |-> pricePerShare]

Snapshots ==
    { Snapshot(1000000, 1000000, One), Snapshot(2000000, 1000000, Int2F(2)),
      Snapshot(0, 1000000, Zero), Snapshot(2000000, 1000000, One) }

\* the vault whose snapshots are followed
TrackedVaults == {"solana-usdc"}
Prices == {Zero, One}
Thresholds == {0, 1, 30}
TrackerClockSteps == {24 * 60 * 60 * 1000}

\* what the feed answers while the tracker runs
TrackerFeeds ==
    { <<>>,
      <<RawPool("Solana", KAMINO, USDC, 5000000, 8, 8, TRUE),
        RawPool("Solana", KAMINO, "WBTC", 5000000, 8, 8, TRUE)>>,
      <<RawPool("Solana", KAMINO, USDC, 5000000, 8, 0, TRUE),
        RawPool("Ethereum", AAVE, USDC, 5000000, 8, 8, TRUE)>> }

TrackerInit ==
    /\ PipeAtRest
    /\ EngineAtRest
    /\ TrackerAtRest
    /\ ApiAtRest
    /\ LaterAtRest
    /\ fpc = "off"
    /\ chainKey = ""
    /\ eligible = <<>>
    /\ \E f \in TrackerFeeds : raw = [i \in 1..Len(f) |-> [f[i] EXCEPT !.pool = i]]

\* APYEngine.updateVaultState
UpdateVaultState(v, snap) ==
    /\ updates < MaxUpdates
    /\ updates' = updates + 1
    /\ vaultStates' = [vaultStates EXCEPT ![v] =
                          [has |-> TRUE, totalAssets |-> snap.totalAssets,
                           totalShares |-> snap.totalShares,
                           lastPricePerShare |-> snap.pricePerShare,
                           lastUpdateTime |-> now]]
    /\ overwritten' = [overwritten EXCEPT ![v] = vaultStates[v]]
    /\ realAPY' = NoRealAPY
    /\ decision' = NoDecision
    /\ served' = NoServed
    /\ UNCHANGED <<now, ticks, feed, cache, currentAPYs, calls, started, lastGood, replaced,
                   fetched, pipeVars, filterVars, apiVars, laterVars>>

\* time passes between two calls
Elapse ==
    /\ ticks < MaxElapse
    /\ ticks' = ticks + 1
    /\ \E dt \in TrackerClockSteps : now' = now + dt
    /\ realAPY' = NoRealAPY
    /\ decision' = NoDecision
    /\ served' = NoServed
    /\ UNCHANGED <<feed, cache, currentAPYs, calls, started, lastGood, replaced, fetched,
                   vaultStates, overwritten, updates, pipeVars, filterVars, apiVars, laterVars>>

\* APYEngine.calculateRealAPY called with a current price
CalculateRealAPY(v, currentPricePerShare) ==
    /\ realAPY' = [called |-> TRUE, vault |-> v, price |-> currentPricePerShare, at |-> now,
                   state |-> vaultStates[v],
                   value |-> calculateRealAPY(vaultStates[v], currentPricePerShare, now)]
    /\ decision' = NoDecision
    /\ served' = NoServed
    /\ UNCHANGED <<now, ticks, feed, cache, currentAPYs, calls, started, lastGood, replaced,
                   fetched, vaultStates, overwritten, updates, pipeVars, filterVars, apiVars, laterVars>>

\* getVaultAPY that also refreshes the snapshot's observation time when it recomputes
GetVaultAPYNowTouching(v) ==
    /\ IF apyFresh(currentAPYs[v], now)
       THEN /\ served' = [vault |-> v, startedAt |-> now, entry |-> currentAPYs[v],
                           value |-> currentAPYs[v], recomputed |-> FALSE, requests |-> 0]
            /\ UNCHANGED <<currentAPYs, replaced, vaultStates>>
       ELSE LET value == vaultAPYOf(v, raw, vaultStates[v], now)
            IN  /\ Store(v, value)
                /\ served' = [vault |-> v, startedAt |-> now, entry |-> currentAPYs[v],
                               value |-> value, recomputed |-> TRUE,
                               requests |-> fetchCount(v)]
                /\ vaultStates' = [vaultStates EXCEPT ![v].lastUpdateTime =
                                      IF vaultStates[v].has THEN now ELSE @]
    /\ realAPY' = NoRealAPY
    /\ decision' = NoDecision
    /\ UNCHANGED <<now, ticks, feed, cache, calls, started, lastGood, fetched,
                   overwritten, updates, pipeVars, filterVars, apiVars, laterVars>>

\* APYEngine.getVaultAPY, the feed answering its requests with raw at once
GetVaultAPYNow(v) ==
    /\ IF apyFresh(currentAPYs[v], now)
       THEN /\ served' = [vault |-> v, startedAt |-> now, entry |-> currentAPYs[v],
                           value |-> currentAPYs[v], recomputed |-> FALSE, requests |-> 0]
            /\ UNCHANGED <<currentAPYs, replaced>>
       ELSE LET value == vaultAPYOf(v, raw, vaultStates[v], now)
            IN  /\ Store(v, value)
                /\ served' = [vault |-> v, startedAt |-> now, entry |-> currentAPYs[v],
                               value |-> value, recomputed |-> TRUE,
                               requests |-> fetchCount(v)]
    /\ realAPY' = NoRealAPY
    /\ decision' = NoDecision
    /\ UNCHANGED <<now, ticks, feed, cache, calls, started, lastGood, fetched,
                   vaultStates, overwritten, updates, pipeVars, filterVars, apiVars, laterVars>>

\* APYEngine.triggerRebalanceIfNeeded
TriggerRebalanceIfNeeded(v, threshold) ==
    /\ decision' = [called |-> TRUE, vault |-> v, threshold |-> threshold,
                    entry |-> currentAPYs[v],
                    value |-> triggerRebalanceIfNeeded(currentAPYs[v], threshold)]
    /\ realAPY' = NoRealAPY
    /\ served' = NoServed
    /\ UNCHANGED <<now, ticks, feed, cache, currentAPYs, calls, started, lastGood, replaced,
                   fetched, vaultStates, overwritten, updates, pipeVars, filterVars, apiVars, laterVars>>

TrackerNext ==
    \/ \E v \in TrackedVaults, snap \in Snapshots : UpdateVaultState(v, snap)
    \/ Elapse
    \/ \E v \in TrackedVaults, p \in Prices : CalculateRealAPY(v, p)
    \/ \E v \in TrackedVaults : GetVaultAPYNow(v)
    \/ \E v \in TrackedVaults, threshold \in Thresholds : TriggerRebalanceIfNeeded(v, threshold)

SpecTracker == TrackerInit /\ [][TrackerNext]_vars

----------------------------------------------------------------------------
(* Properties of the realized APY and the rebalance decision *)

\* C15: calculateRealAPY returns 0 when the vault has no snapshot and when no
\* time has passed since the snapshot, and for every snapshot updateVaultState
\* accepted and every current price it returns a finite number (never NaN,
\* never Infinity).
C15_RealAPYZeroGuardAndFinite ==
    realAPY.called =>
        /\ ~realAPY.state.has => realAPY.value = Zero
        /\ (realAPY.state.has /\ realAPY.at = realAPY.state.lastUpdateTime)
               => realAPY.value = Zero
        /\ isFinite(realAPY.value)

C15_Witness ==
    /\ realAPY.called
    /\ realAPY.state.has
    /\ realAPY.state.lastPricePerShare = Zero
    /\ realAPY.at > realAPY.state.lastUpdateTime
    /\ ~isFinite(realAPY.value)

\* the rate of the change from price p1 to price p2 over the given number of
\* milliseconds, annualised, in percent
annualisedRate(p1, p2, millis) ==
    FMul(FMul(FDiv(FSub(p2, p1), p1), FDiv(Int2F(SECONDS_PER_YEAR), Norm(Div(millis, 1000)))),
         Int2F(100))

\* two successive snapshots of the vault with different prices, the second one
\* taken later than the first, and getVaultAPY computing an entry after them
successiveSnapshots(v) ==
    /\ served.vault = v
    /\ served.recomputed
    /\ overwritten[v].has
    /\ vaultStates[v].has
    /\ overwritten[v].lastPricePerShare # Zero
    /\ vaultStates[v].lastPricePerShare # overwritten[v].lastPricePerShare
    /\ vaultStates[v].lastUpdateTime > overwritten[v].lastUpdateTime

\* C16: after updateVaultState recorded price p1 and later price p2 # p1, an
\* uncached getVaultAPY reports an apyReal that is the annualised rate of the
\* change from p1 to p2, which is not zero.
C16_RealAPYFromSuccessiveSnapshots ==
    \A v \in TrackedVaults :
        successiveSnapshots(v) =>
            /\ served.value.apyReal # Zero
            /\ served.value.apyReal =
                   annualisedRate(overwritten[v].lastPricePerShare,
                                  vaultStates[v].lastPricePerShare,
                                  vaultStates[v].lastUpdateTime - overwritten[v].lastUpdateTime)

C16_Witness ==
    \E v \in TrackedVaults :
        /\ successiveSnapshots(v)
        /\ overwritten[v].lastPricePerShare = One
        /\ vaultStates[v].lastPricePerShare = Int2F(2)
        /\ now > vaultStates[v].lastUpdateTime
        /\ served.value.apyReal = Zero

\* |model - real| is a number greater than the threshold
exceeds(model, real, threshold) ==
    IF isNaN(model) \/ isNaN(real) THEN FALSE
    ELSE IF isFinite(model) /\ isFinite(real)
    THEN Abs(model.n * real.d - real.n * model.d) > threshold * model.d * real.d
    ELSE ~(~isFinite(model) /\ ~isFinite(real) /\ model.n = real.n)

\* C17: triggerRebalanceIfNeeded(vaultId, threshold) returns true if and only
\* if the vault has a VaultYield whose model APY and realized APY differ, in
\* absolute value, by more than the threshold (1 by default), and the call
\* changes neither the VaultYield cache nor a vault snapshot nor the pool
\* cache.
C17_RebalanceDecisionPure ==
    [][\A v \in TrackedVaults, threshold \in Thresholds :
           TriggerRebalanceIfNeeded(v, threshold) =>
               /\ decision'.value <=>
                      /\ currentAPYs[v].has
                      /\ exceeds(currentAPYs[v].apyModel, currentAPYs[v].apyReal, threshold)
               /\ UNCHANGED <<currentAPYs, vaultStates, cache, lastGood>>]_vars

C17_Witness ==
    /\ decision.called
    /\ decision.threshold = 1
    /\ decision.entry.has
    /\ decision.entry.apyReal = Zero
    /\ FGreater(decision.entry.apyModel, Int2F(1))
    /\ decision.value
    /\ currentAPYs[decision.vault] = decision.entry

\* getVaultAPY has computed an entry for a single-chain vault that has no
\* snapshot, from a feed holding exactly one pool eligible for the vault's
\* chain, which is at 8% APY
oneEligiblePoolAt8(v) ==
    /\ served.vault = v
    /\ served.recomputed
    /\ fetchCount(v) = 1
    /\ ~vaultStates[v].has
    /\ Len(getPoolsForChain(raw, VaultChain(v))) = 1
    /\ getPoolsForChain(raw, VaultChain(v))[1].apy = 8

\* the plan is the one pool with weight 1 and the whole vault value
planIsThePool(v) ==
    LET entry == served.value
        pool == getPoolsForChain(raw, VaultChain(v))[1]
    IN  /\ entry.totalTVL = 10000000
        /\ Len(entry.strategies) = 1
        /\ entry.strategies[1].id = pool.pool
        /\ Same(entry.strategies[1].weight, One)
        /\ Same(entry.strategies[1].allocated, Int2F(10000000))
        /\ Same(entry.totalAllocated, Int2F(entry.totalTVL))

----------------------------------------------------------------------------
(* APYController: the HTTP handlers over the engine and the feed client.   *)
(* A handler runs to its response in one step; the upstream answers the    *)
(* requests of the step with the current feed, or fails them all.          *)

\* the chain keys the handlers accept
AcceptedKeys == {"arbitrum", "ethereum", "base", "plasma", "solana", "bsc"}

\* chain keys of the requests: two accepted ones, and two that are not
RequestKeys == {"ethereum", "solana", "polygon", "Ethereum"}

\* chainMap[chain].vaultId
chainMap(chain) == IF chain = "ethereum" THEN "ethereum-usdt" ELSE "solana-usdc"

\* the vaults of getAllVaultAPYs that the model follows, in their order
AllChains == <<"ethereum-usdt", "solana-usdc">>

\* a field of a pool record that the upstream sent as null
NULL == "<null>"

\* what the upstream may answer: a list of well-formed pools, and one with a
\* pool whose symbol is null
ApiFeeds == <<
    <<RawPool("Solana", KAMINO, USDC, 5000000, 8, 8, TRUE),
      RawPool("Ethereum", AAVE, USDC, 5000000, 8, 8, TRUE)>>,
    <<RawPool("Solana", KAMINO, USDC, 5000000, 9, 9, TRUE),
      RawPool("Ethereum", AAVE, NULL, 5000000, 8, 8, TRUE)>> >>

\* pool lists are held by index: 0 is the empty list
apiPools(d) ==
    IF d = 0 THEN <<>> ELSE [i \in 1..Len(ApiFeeds[d]) |-> [ApiFeeds[d][i] EXCEPT !.pool = i]]

\* allPools.filter in getPoolsForChain throws a TypeError: the callback calls
\* pool.chain.toLowerCase() and pool.symbol.toUpperCase() on every pool
throws(allPools) ==
    \E i \in 1..Len(allPools) : allPools[i].chain = NULL \/ allPools[i].symbol = NULL

\* DefiLlamaService.fetchPools at the current time: the list it returns
fetchedNow(ok) ==
    IF cacheFresh(cache, now) THEN cache.data ELSE IF ok THEN feed ELSE fallback(cache)

\* DefiLlamaService.fetchPools at the current time: the cache it leaves
cacheAfterFetch(ok) ==
    IF ~cacheFresh(cache, now) /\ ok THEN [has |-> TRUE, data |-> feed, timestamp |-> now]
    ELSE cache

INVALID_CHAIN == <<"Invalid", "chain">>
INVALID_CHAIN_MUST_BE ==
    <<"Invalid", "chain.", "Must", "be", "arbitrum", "ethereum", "base", "plasma", "solana",
      "or", "bsc">>

Reply(handler, chain, status, error, data, invoked, threw) ==
    [handler |-> handler, chain |-> chain, status |-> status, error |-> error, data |-> data,
     invoked |-> invoked, threw |-> threw]

\* APYController.getAllAPYs over APYEngine.getAllVaultAPYs
GetAllAPYs(ok) ==
    LET needs == {v \in Vaults : ~apyFresh(currentAPYs[v], now)}
        allPools == apiPools(fetchedNow(ok))
        threw == IF throws(allPools) THEN needs ELSE {}
        entries == [v \in Vaults |->
                       IF v \in needs THEN vaultAPYOf(v, allPools, vaultStates[v], now)
                       ELSE currentAPYs[v]]
    IN  /\ cache' = IF needs = {} THEN cache ELSE cacheAfterFetch(ok)
        /\ IF threw # {}
           THEN /\ response' = Reply("getAllAPYs", "", 500,
                                     <<"Failed", "to", "fetch", "APYs">>, <<>>, TRUE, threw)
                /\ UNCHANGED currentAPYs
           ELSE /\ response' = Reply("getAllAPYs", "", 200, <<>>,
                                     [i \in 1..Len(AllChains) |-> entries[AllChains[i]]],
                                     TRUE, {})
                /\ currentAPYs' = entries
        /\ UNCHANGED <<now, ticks, feed, calls, started, lastGood, replaced, fetched, served,
                       pipeVars, filterVars, trackerVars, laterVars>>

\* APYController.getChainAPY
GetChainAPY(chain, ok) ==
    /\ IF chain \notin AcceptedKeys
       THEN /\ response' = Reply("getChainAPY", chain, 400, INVALID_CHAIN_MUST_BE, <<>>,
                                 FALSE, {})
            /\ UNCHANGED <<cache, currentAPYs>>
       ELSE LET v == chainMap(chain)
                allPools == apiPools(fetchedNow(ok))
            IN  IF apyFresh(currentAPYs[v], now)
                THEN /\ response' = Reply("getChainAPY", chain, 200, <<>>, <<currentAPYs[v]>>,
                                          TRUE, {})
                     /\ UNCHANGED <<cache, currentAPYs>>
                ELSE /\ cache' = cacheAfterFetch(ok)
                     /\ IF throws(allPools)
                        THEN /\ response' = Reply("getChainAPY", chain, 500,
                                                  <<"Failed", "to", "fetch", "chain", "APY">>,
                                                  <<>>, TRUE, {v})
                             /\ UNCHANGED currentAPYs
                        ELSE LET value == vaultAPYOf(v, allPools, vaultStates[v], now)
                             IN  /\ response' = Reply("getChainAPY", chain, 200, <<>>,
                                                      <<value>>, TRUE, {})
                                 /\ currentAPYs' = [currentAPYs EXCEPT ![v] = value]
    /\ UNCHANGED <<now, ticks, feed, calls, started, lastGood, replaced, fetched, served,
                   pipeVars, filterVars, trackerVars, laterVars>>

\* APYController.getStrategies, limit left at its default
GetStrategies(chain, ok) ==
    /\ IF chain \notin AcceptedKeys
       THEN /\ response' = Reply("getStrategies", chain, 400, INVALID_CHAIN, <<>>, FALSE, {})
            /\ UNCHANGED cache
       ELSE LET allPools == apiPools(fetchedNow(ok))
            IN  /\ cache' = cacheAfterFetch(ok)
                /\ response' =
                       IF throws(allPools)
                       THEN Reply("getStrategies", chain, 500,
                                  <<"Failed", "to", "fetch", "strategies">>, <<>>, TRUE, {})
                       ELSE Reply("getStrategies", chain, 200, <<>>,
                                  getTopStrategiesOf(allPools, chain, 10), TRUE, {})
    /\ UNCHANGED <<now, ticks, feed, currentAPYs, calls, started, lastGood, replaced, fetched,
                   served, pipeVars, filterVars, trackerVars, laterVars>>

\* APYController.getRebalanceRecommendations, tvl left at its default, over
\* DefiLlamaService.getRebalanceRecommendations
GetRebalanceRecommendations(chain, ok) ==
    /\ IF chain \notin AcceptedKeys
       THEN /\ response' = Reply("getRebalanceRecommendations", chain, 400, INVALID_CHAIN,
                                 <<>>, FALSE, {})
            /\ UNCHANGED cache
       ELSE LET allPools == apiPools(fetchedNow(ok))
            IN  /\ cache' = cacheAfterFetch(ok)
                /\ response' =
                       IF throws(allPools)
                       THEN Reply("getRebalanceRecommendations", chain, 500,
                                  <<"Failed", "to", "fetch", "recommendations">>, <<>>,
                                  TRUE, {})
                       ELSE Reply("getRebalanceRecommendations", chain, 200, <<>>,
                                  calculateOptimalWeights(
                                      getTopStrategiesOf(allPools, chain, 5), 1000000, ""),
                                  TRUE, {})
    /\ UNCHANGED <<now, ticks, feed, currentAPYs, calls, started, lastGood, replaced, fetched,
                   served, pipeVars, filterVars, trackerVars, laterVars>>

ApiClockSteps == {VAULT_TTL \div 2, CACHE_TTL - VAULT_TTL \div 2}

\* time passes between two requests
ApiTick ==
    /\ ticks < MaxTicks
    /\ ticks' = ticks + 1
    /\ \E dt \in ApiClockSteps : now' = now + dt
    /\ response' = NoResponse
    /\ UNCHANGED <<feed, cache, currentAPYs, calls, started, lastGood, replaced, fetched,
                   served, pipeVars, filterVars, trackerVars, laterVars>>

\* the upstream starts answering with the other list
ApiFeedChange ==
    /\ feed < Len(ApiFeeds)
    /\ feed' = feed + 1
    /\ response' = NoResponse
    /\ UNCHANGED <<now, ticks, cache, currentAPYs, calls, started, lastGood, replaced,
                   fetched, served, pipeVars, filterVars, trackerVars, laterVars>>

ApiInit ==
    /\ PipeAtRest
    /\ EngineAtRest
    /\ RestAtRest

ApiNext ==
    \/ \E ok \in BOOLEAN : GetAllAPYs(ok)
    \/ \E chain \in RequestKeys, ok \in BOOLEAN : GetChainAPY(chain, ok)
    \/ \E chain \in RequestKeys, ok \in BOOLEAN : GetStrategies(chain, ok)
    \/ \E chain \in RequestKeys, ok \in BOOLEAN : GetRebalanceRecommendations(chain, ok)
    \/ ApiTick
    \/ ApiFeedChange

SpecApi == ApiInit /\ [][ApiNext]_vars

----------------------------------------------------------------------------
(* Properties of the HTTP handlers *)

\* the entry is among those the response carries
returned(entry, reply) == \E i \in 1..Len(reply.data) : reply.data[i] = entry

\* C14: when the computation of one vault throws during getAllVaultAPYs, the
\* query still succeeds: the vaults whose computation did not throw are
\* returned, and a vault whose computation threw is returned as its last good
\* cached VaultYield.
C14_VaultFailureIsolated ==
    [][\A ok \in BOOLEAN :
           (GetAllAPYs(ok) /\ response'.threw # {}) =>
               /\ response'.status = 200
               /\ \A v \in Vaults :
                      IF v \in response'.threw
                      THEN currentAPYs[v].has => returned(currentAPYs[v], response')
                      ELSE returned(currentAPYs'[v], response')]_vars

C14_Witness ==
    /\ response.handler = "getAllAPYs"
    /\ response.threw = {"ethereum-usdt"}
    /\ apyFresh(currentAPYs["solana-usdc"], now)
    /\ currentAPYs["ethereum-usdt"].has
    /\ response.status = 500
    /\ response.data = <<>>

\* the error message names every accepted chain key
enumerates(error) == \A key \in AcceptedKeys : \E i \in 1..Len(error) : error[i] = key

chainHandlers == {"getChainAPY", "getStrategies", "getRebalanceRecommendations"}

\* C20: every handler that takes a chain key answers a key that is not
\* accepted with status 400 and an error that enumerates the accepted keys,
\* without invoking the engine or the feed client and without changing the
\* pool cache or the VaultYield cache.
C20_UnknownChainRejected ==
    [][(response'.handler \in chainHandlers /\ response'.chain \notin AcceptedKeys) =>
           /\ response'.status = 400
           /\ enumerates(response'.error)
           /\ ~response'.invoked
           /\ UNCHANGED <<cache, currentAPYs>>]_vars

C20_Witness ==
    /\ response.handler = "getStrategies"
    /\ response.chain = "polygon"
    /\ response.status = 400
    /\ ~response.invoked
    /\ ~enumerates(response.error)

----------------------------------------------------------------------------
(* WebSocketService: subscribers, the initial send and the broadcasts.     *)
(* getAllVaultAPYs is awaited: a send finishes in a later step than it     *)
(* starts, and the awaited call resolves or rejects.                       *)

baseVars == <<pipeVars, engineVars, filterVars, trackerVars, apiVars>>

RECURSIVE without(_, _)
without(seq, x) ==
    IF seq = <<>> THEN <<>>
    ELSE IF Head(seq) = x THEN without(Tail(seq), x)
    ELSE <<Head(seq)>> \o without(Tail(seq), x)

\* the sockets client.send was called on by clients.forEach: the open ones
\* in insertion order, up to and including the one whose send throws
RECURSIVE forEachSend(_, _)
forEachSend(seq, thrower) ==
    IF seq = <<>> THEN {}
    ELSE IF readyState[Head(seq)] # "open" THEN forEachSend(Tail(seq), thrower)
    ELSE IF Head(seq) = thrower THEN {Head(seq)}
    ELSE {Head(seq)} \cup forEachSend(Tail(seq), thrower)

openClients == {clients[i] : i \in {j \in 1..Len(clients) : readyState[clients[j]] = "open"}}

\* WebSocketService.initialize
Initialize ==
    /\ ~running
    /\ intervals = 0
    /\ running' = TRUE
    /\ UNCHANGED <<clients, readyState, initialSends, broadcasts, intervals, inbox, lastSend,
                   baseVars, vaultVars, coordVars, routerVars, fetchVars, operatorVars>>

\* wss.on('connection'): the socket joins the set and sendAPYUpdate starts
Connection(ws) ==
    /\ running
    /\ readyState[ws] = "none"
    /\ readyState' = [readyState EXCEPT ![ws] = "open"]
    /\ clients' = Append(clients, ws)
    /\ initialSends' = initialSends \cup {ws}
    /\ lastSend' = NoSend
    /\ UNCHANGED <<running, broadcasts, intervals, inbox, baseVars, vaultVars, coordVars, routerVars, fetchVars, operatorVars>>

\* ws.on('close')
OnClose(ws) ==
    /\ readyState[ws] \in {"open", "closing"}
    /\ readyState' = [readyState EXCEPT ![ws] = "closed"]
    /\ clients' = without(clients, ws)
    /\ lastSend' = NoSend
    /\ UNCHANGED <<running, initialSends, broadcasts, intervals, inbox, baseVars, vaultVars, coordVars, routerVars, fetchVars, operatorVars>>

\* ws.on('error'): the socket has left the OPEN state when the event is emitted
OnError(ws) ==
    /\ readyState[ws] = "open"
    /\ readyState' = [readyState EXCEPT ![ws] = "closing"]
    /\ clients' = without(clients, ws)
    /\ lastSend' = NoSend
    /\ UNCHANGED <<running, initialSends, broadcasts, intervals, inbox, baseVars, vaultVars, coordVars, routerVars, fetchVars, operatorVars>>

\* sendAPYUpdate after its await: getAllVaultAPYs resolved or rejected, and
\* ws.send returns or throws
SendAPYUpdate(ws, rejected, throwing) ==
    /\ ws \in initialSends
    /\ initialSends' = initialSends \ {ws}
    /\ LET sends == ~rejected /\ readyState[ws] = "open"
           reached == IF sends /\ ~throwing THEN {ws} ELSE {}
       IN  /\ inbox' = [s \in Sockets |-> IF s \in reached THEN inbox[s] + 1 ELSE inbox[s]]
           /\ lastSend' = [kind |-> "initial", socket |-> ws, rejected |-> rejected,
                           thrower |-> IF sends /\ throwing THEN ws ELSE 0,
                           intended |-> IF readyState[ws] = "open" THEN {ws} ELSE {},
                           reached |-> reached]
    /\ UNCHANGED <<clients, readyState, running, broadcasts, intervals, baseVars, vaultVars, coordVars, routerVars, fetchVars, operatorVars>>

\* the setInterval callback: broadcastAPYUpdates up to its await
Interval ==
    /\ running
    /\ intervals < MaxIntervals
    /\ intervals' = intervals + 1
    /\ broadcasts' = IF Len(clients) = 0 THEN broadcasts ELSE broadcasts + 1
    /\ lastSend' = NoSend
    /\ UNCHANGED <<clients, readyState, running, initialSends, inbox, baseVars, vaultVars, coordVars, routerVars, fetchVars, operatorVars>>

\* broadcastAPYUpdates after its await; thrower is the socket whose send
\* throws, 0 when none does
BroadcastAPYUpdates(rejected, thrower) ==
    /\ broadcasts > 0
    /\ broadcasts' = broadcasts - 1
    /\ LET called == IF rejected THEN {} ELSE forEachSend(clients, thrower)
           reached == called \ {thrower}
       IN  /\ inbox' = [s \in Sockets |-> IF s \in reached THEN inbox[s] + 1 ELSE inbox[s]]
           /\ lastSend' = [kind |-> "broadcast", socket |-> 0, rejected |-> rejected,
                           thrower |-> IF thrower \in called THEN thrower ELSE 0,
                           intended |-> openClients, reached |-> reached]
    /\ UNCHANGED <<clients, readyState, running, initialSends, intervals, baseVars, vaultVars, coordVars, routerVars, fetchVars, operatorVars>>

\* WebSocketService.shutdown
Shutdown ==
    /\ running
    /\ running' = FALSE
    /\ readyState' = [ws \in Sockets |->
                         IF readyState[ws] = "open" THEN "closing" ELSE readyState[ws]]
    /\ lastSend' = NoSend
    /\ UNCHANGED <<clients, initialSends, broadcasts, intervals, inbox, baseVars, vaultVars, coordVars, routerVars, fetchVars, operatorVars>>

WsInit ==
    /\ PipeAtRest
    /\ EngineAtRest
    /\ RestAtRest

WsNext ==
    \/ Initialize
    \/ \E ws \in Sockets : Connection(ws)
    \/ \E ws \in Sockets : OnClose(ws)
    \/ \E ws \in Sockets : OnError(ws)
    \/ \E ws \in Sockets, rejected \in BOOLEAN, throwing \in BOOLEAN :
           SendAPYUpdate(ws, rejected, throwing)
    \/ Interval
    \/ \E rejected \in BOOLEAN, thrower \in Sockets \cup {0} :
           BroadcastAPYUpdates(rejected, thrower)
    \/ Shutdown

SpecWs == WsInit /\ [][WsNext]_vars

----------------------------------------------------------------------------
(* Properties of the WebSocket service *)

\* C21: a subscriber is sent an update message right after it connects, and
\* every broadcast sends one to every connected subscriber: when an initial
\* send or a broadcast finishes and no send has failed, every subscriber that
\* was connected has been sent the message.
C21_SubscribersAreSentUpdates ==
    (lastSend.kind # "none" /\ lastSend.thrower = 0) => lastSend.reached = lastSend.intended

C21_Witness ==
    /\ lastSend.kind = "initial"
    /\ lastSend.rejected
    /\ lastSend.intended = {lastSend.socket}
    /\ readyState[lastSend.socket] = "open"
    /\ inbox[lastSend.socket] = 0

inClients(ws) == \E i \in 1..Len(clients) : clients[i] = ws

\* C22: a subscriber that disconnects or errors leaves the broadcast set and
\* is sent nothing afterwards, also by a send whose data fetch had started
\* before; and when sending to one subscriber fails in a broadcast, every
\* other connected subscriber is still sent that broadcast.
C22_RemovedAndIsolated ==
    [][/\ \A ws \in Sockets : (OnClose(ws) \/ OnError(ws)) => ~inClients(ws)'
       /\ \A ws \in Sockets : readyState[ws] # "open" => inbox'[ws] = inbox[ws]
       /\ \A thrower \in Sockets \cup {0} :
              BroadcastAPYUpdates(FALSE, thrower) =>
                  \A ws \in openClients \ {thrower} : inbox'[ws] = inbox[ws] + 1]_vars

C22_Witness ==
    /\ lastSend.kind = "broadcast"
    /\ ~lastSend.rejected
    /\ Len(clients) = 2
    /\ lastSend.thrower = clients[1]
    /\ lastSend.intended = {clients[1], clients[2]}
    /\ lastSend.reached = {}

----------------------------------------------------------------------------
(* Properties of the caches under overlapping calls *)

----------------------------------------------------------------------------
(* getVaultAPY calls that overlap with each other and with updateVaultState *)
(* The upstream answers the requests of a call with raw; the pool cache     *)
(* keeps the time of the answer.                                            *)

\* the snapshot a call captured when it was made
stateReadAtCall(c, v) == calls[c].state

\* const state = this.vaultStates.get(vaultId), read after the awaits
stateRead(c, v) == vaultStates[v]

inFlightFor(v) == \E c \in 1..MaxCalls : calls[c].kind = "vault" /\ calls[c].vault = v

\* APYEngine.getVaultAPY up to its first await that suspends
StartGetVaultAPY(v) ==
    /\ IF apyFresh(currentAPYs[v], now)
       THEN /\ served' = [vault |-> v, startedAt |-> now, entry |-> currentAPYs[v],
                           value |-> currentAPYs[v], recomputed |-> FALSE, requests |-> 0]
            /\ UNCHANGED <<currentAPYs, replaced, calls>>
       ELSE IF cacheFresh(cache, now)
       THEN LET value == vaultAPYOf(v, raw, vaultStates[v], now)
            IN  /\ Store(v, value)
                /\ served' = [vault |-> v, startedAt |-> now, entry |-> currentAPYs[v],
                               value |-> value, recomputed |-> TRUE, requests |-> 0]
                /\ UNCHANGED calls
       ELSE /\ \E c \in 1..MaxCalls : calls[c].kind = "idle"
            /\ calls' = [calls EXCEPT ![freeSlot] =
                            [kind |-> "vault", vault |-> v, cached |-> cache,
                             rets |-> [k \in 1..fetchCount(v) |-> Pending],
                             startedAt |-> now, entry |-> currentAPYs[v],
                             state |-> vaultStates[v]]]
            /\ served' = NoServed
            /\ UNCHANGED <<currentAPYs, replaced>>
    /\ realAPY' = NoRealAPY
    /\ decision' = NoDecision
    /\ UNCHANGED <<now, ticks, feed, cache, started, lastGood, fetched, vaultStates,
                   overwritten, updates, pipeVars, filterVars, apiVars, laterVars>>

\* the requests of call c are answered; getVaultAPY runs from line 102 to its
\* return: the snapshot is read, and calculateRealAPY reads it again
FinishGetVaultAPY(c) ==
    /\ calls[c].kind = "vault"
    /\ LET v == calls[c].vault
           state == stateRead(c, v)
           value == [vaultAPYOf(v, raw, state, now) EXCEPT
                        !.apyReal = calculateRealAPY(vaultStates[v], currentPPSOf(state), now)]
       IN  /\ Store(v, value)
           /\ served' = [vault |-> v, startedAt |-> calls[c].startedAt,
                          entry |-> calls[c].entry, value |-> value, recomputed |-> TRUE,
                          requests |-> fetchCount(v)]
    /\ cache' = [has |-> TRUE, data |-> feed, timestamp |-> now]
    /\ calls' = [calls EXCEPT ![c] = Idle]
    /\ realAPY' = NoRealAPY
    /\ decision' = NoDecision
    /\ UNCHANGED <<now, ticks, feed, started, lastGood, fetched, vaultStates, overwritten,
                   updates, pipeVars, filterVars, apiVars, laterVars>>

\* the snapshots reported while calls overlap: the total value doubles
RaceSnapshots == {Snapshot(1000000, 1000000, One), Snapshot(2000000, 1000000, Int2F(2))}

RaceInit ==
    /\ PipeAtRest
    /\ EngineAtRest
    /\ TrackerAtRest
    /\ ApiAtRest
    /\ LaterAtRest
    /\ fpc = "off"
    /\ chainKey = ""
    /\ eligible = <<>>
    /\ raw = <<[RawPool("Solana", KAMINO, USDC, 5000000, 8, 8, TRUE) EXCEPT !.pool = 1],
               [RawPool("Solana", MARGINFI, USDC, 5000000, 12, 6, TRUE) EXCEPT !.pool = 2]>>

RaceNext ==
    \/ \E v \in TrackedVaults : StartGetVaultAPY(v)
    \/ \E c \in 1..MaxCalls : FinishGetVaultAPY(c)
    \/ \E v \in TrackedVaults, snap \in RaceSnapshots : UpdateVaultState(v, snap)
    \/ Elapse

SpecRace == RaceInit /\ [][RaceNext]_vars

\* C24: while a recomputation of a vault's VaultYield is in flight, a caller
\* asking for the same vault gets the previous cached value at once: the
\* call starts no recomputation and does not wait for one.
C24_CallerGetsCachedWhileInFlight ==
    [][\A v \in TrackedVaults :
           (StartGetVaultAPY(v) /\ inFlightFor(v) /\ currentAPYs[v].has) =>
               /\ served'.vault = v
               /\ served'.value = currentAPYs[v]
               /\ ~served'.recomputed
               /\ calls' = calls]_vars

C24_Witness ==
    \E v \in TrackedVaults :
        /\ currentAPYs[v].has
        /\ \A c \in 1..MaxCalls :
               /\ calls[c].kind = "vault"
               /\ calls[c].vault = v
               /\ calls[c].entry = currentAPYs[v]
               /\ calls[c].startedAt = now

\* C30: the vault total value, the current price-per-share and the snapshot
\* calculateRealAPY uses all come from one VaultSnapshot, the one stored when
\* the computation runs: the entry a computation returns has the total value
\* of that snapshot, a plan allocated for that value, and the realized APY of
\* that snapshot against its own price, also when updateVaultState ran while
\* the call was waiting.
C30_OneSnapshotPerComputation ==
    \A v \in TrackedVaults :
        (served.vault = v /\ served.recomputed) =>
            LET s == vaultStates[v]
                entry == served.value
            IN  /\ entry.totalTVL = tvlOf(s)
                /\ entry.apyReal = calculateRealAPY(s, currentPPSOf(s), entry.lastUpdate)
                /\ entry.strategies # <<>> => Same(entry.totalAllocated, Int2F(tvlOf(s)))

C30_Witness ==
    \E v \in TrackedVaults :
        /\ served.vault = v
        /\ served.recomputed
        /\ vaultStates[v].has
        /\ vaultStates[v].lastUpdateTime > served.startedAt
        /\ overwritten[v].has
        /\ tvlOf(overwritten[v]) # tvlOf(vaultStates[v])
        /\ served.value.totalTVL = tvlOf(vaultStates[v])
        /\ served.value.strategies # <<>>

(***************************************************************************)
(* The ERC-4626 vaults: TSV_USDT0_Vault (EVM) and TSV_USDT_Vault_BSC carry  *)
(* the same fee and redemption code; the Solana program is present only     *)
(* through its test-suite, which fixes initialize(10) and updateFee.        *)
(* deployed names the vault this run deploys.                               *)
(***************************************************************************)
MAX_FEE_BPS == 100
BPS_DENOMINATOR == 10000

SolidityVaults == {"evm", "bsc"}
VaultKinds == SolidityVaults \cup {"solana"}
VaultCallers == {"owner", "alice"}
InitialFees == {10, 100, 101}
NewFees == {0, 10, 20, 100, 101, 65535}
InitialTokens == 1000
DepositAmounts == {500, 1000}

\* constructor: require(initialFeeBps_ <= MAX_FEE_BPS); the Solana test-suite
\* initialises its vault with 10 bps and nothing else.
constructorAccepts(kind, initialFeeBps) ==
    IF kind \in SolidityVaults THEN initialFeeBps <= MAX_FEE_BPS ELSE initialFeeBps = 10

\* setFeeBps without the MAX_FEE_BPS test.
setFeeBpsUnbounded(caller, newBps) ==
    IF caller # "owner" THEN [reverted |-> TRUE, feeBps |-> feeBps]
    ELSE [reverted |-> FALSE, feeBps |-> newBps]

\* setFeeBps(newBps) external onlyOwner; updateFee of the Solana program behaves
\* alike in its tests (20 is stored, 101 fails with InvalidFee).
setFeeBps(caller, newBps) ==
    IF caller # "owner" THEN [reverted |-> TRUE, feeBps |-> feeBps]
    ELSE IF newBps > MAX_FEE_BPS THEN [reverted |-> TRUE, feeBps |-> feeBps]
    ELSE [reverted |-> FALSE, feeBps |-> newBps]

\* ERC4626._convertToAssets(shares, Floor) and _convertToShares(assets, Floor) of
\* the inherited OpenZeppelin contract, over explicit totals.
convertToAssets(shares, assets, supply) == (shares * (assets + 1)) \div (supply + 1)
convertToShares(amount, assets, supply) == (amount * (supply + 1)) \div (assets + 1)

\* (gross * feeBps) / 10_000, split at the denominator so that the product stays
\* within the integers of the checker; the value is the same.
feeOn(gross) ==
    (gross \div BPS_DENOMINATOR) * feeBps
        + ((gross % BPS_DENOMINATOR) * feeBps) \div BPS_DENOMINATOR

totalAssets == tokenOf["vault"]

previewRedeem(shares) ==
    LET gross == convertToAssets(shares, totalAssets, totalSupply)
    IN  gross - feeOn(gross)

maxRedeem(owner) == balanceOf[owner]

\* _withdraw: the shares are burnt first, then gross is converted from them.
netAssetsOfWithdraw(shares) ==
    LET gross == convertToAssets(shares, totalAssets, totalSupply - shares)
    IN  gross - feeOn(gross)

Revert(op, caller, arg) ==
    /\ lastTx' = [NoTx EXCEPT !.op = op, !.caller = caller, !.arg = arg, !.reverted = TRUE,
                              !.feeBefore = feeBps]
    /\ UNCHANGED <<deployed, feeBps, totalSupply, balanceOf, tokenOf>>

Deploy(kind, initialFeeBps) ==
    /\ deployed = "none"
    /\ txs' = txs
    /\ IF constructorAccepts(kind, initialFeeBps)
       THEN /\ deployed' = kind
            /\ feeBps' = initialFeeBps
            /\ tokenOf' = [a \in Accounts |-> IF a = "vault" THEN 0 ELSE InitialTokens]
            /\ lastTx' = [NoTx EXCEPT !.op = "deploy", !.caller = "owner",
                                      !.arg = initialFeeBps]
            /\ UNCHANGED <<totalSupply, balanceOf>>
       ELSE Revert("deploy", "owner", initialFeeBps)
    /\ UNCHANGED <<sigVars, baseVars, wsVars, coordVars, routerVars, fetchVars, operatorVars>>

SetFeeBps(caller, newBps) ==
    /\ deployed # "none"
    /\ txs < MaxTxs
    /\ txs' = txs + 1
    /\ LET r == setFeeBps(caller, newBps)
       IN  IF r.reverted THEN Revert("setFeeBps", caller, newBps)
           ELSE /\ feeBps' = r.feeBps
                /\ lastTx' = [NoTx EXCEPT !.op = "setFeeBps", !.caller = caller,
                                          !.arg = newBps, !.feeBefore = feeBps]
                /\ UNCHANGED <<deployed, totalSupply, balanceOf, tokenOf>>
    /\ UNCHANGED <<sigVars, baseVars, wsVars, coordVars, routerVars, fetchVars, operatorVars>>

\* ERC4626.deposit(assets, receiver) with receiver = msg.sender.
Deposit(caller, amount) ==
    /\ deployed \in SolidityVaults
    /\ txs < MaxTxs
    /\ txs' = txs + 1
    /\ IF tokenOf[caller] < amount THEN Revert("deposit", caller, amount)
       ELSE LET shares == convertToShares(amount, totalAssets, totalSupply)
            IN  /\ tokenOf' = [tokenOf EXCEPT ![caller] = @ - amount, !["vault"] = @ + amount]
                /\ totalSupply' = totalSupply + shares
                /\ balanceOf' = [balanceOf EXCEPT ![caller] = @ + shares]
                /\ lastTx' = [NoTx EXCEPT !.op = "deposit", !.caller = caller, !.arg = amount,
                                          !.returned = shares, !.transferred = amount,
                                          !.feeBefore = feeBps]
                /\ UNCHANGED <<deployed, feeBps>>
    /\ UNCHANGED <<sigVars, baseVars, wsVars, coordVars, routerVars, fetchVars, operatorVars>>

\* ERC4626.redeem(shares, receiver, owner) with receiver = owner = msg.sender:
\* maxRedeem test, assets = previewRedeem(shares), _withdraw, return assets.
Redeem(caller, shares) ==
    /\ deployed \in SolidityVaults
    /\ txs < MaxTxs
    /\ txs' = txs + 1
    /\ LET assets == previewRedeem(shares)
           netAssets == netAssetsOfWithdraw(shares)
       IN  IF shares > maxRedeem(caller) \/ netAssets > tokenOf["vault"]
           THEN /\ lastTx' = [NoTx EXCEPT !.op = "redeem", !.caller = caller, !.arg = shares,
                                          !.reverted = TRUE, !.feeBefore = feeBps,
                                          !.preview = IF shares > maxRedeem(caller)
                                                      THEN 0 ELSE assets]
                /\ UNCHANGED <<deployed, feeBps, totalSupply, balanceOf, tokenOf>>
           ELSE /\ totalSupply' = totalSupply - shares
                /\ balanceOf' = [balanceOf EXCEPT ![caller] = @ - shares]
                /\ tokenOf' = [tokenOf EXCEPT !["vault"] = @ - netAssets,
                                              ![caller] = @ + netAssets]
                /\ lastTx' = [NoTx EXCEPT !.op = "redeem", !.caller = caller, !.arg = shares,
                                          !.preview = assets, !.returned = assets,
                                          !.transferred = netAssets, !.feeBefore = feeBps]
                /\ UNCHANGED <<deployed, feeBps>>
    /\ UNCHANGED <<sigVars, baseVars, wsVars, coordVars, routerVars, fetchVars, operatorVars>>

\* The signature check of redeemWithSig without the nonce in the signed
\* digest.
signatureValidAnyNonce(owner, signedNonce, signer) ==
    /\ signer # ""
    /\ signer = owner

\* The digest of redeemWithSig is built over nonces[owner] as it stands at the
\* call, so ecrecover yields the owner only for a message the owner signed over
\* exactly that nonce; signer is the address that signed the message presented
\* ("" for a signature that recovers to address(0)).
signatureValid(owner, signedNonce, signer) ==
    /\ signer # ""
    /\ signer = owner
    /\ signedNonce = vaultNonces[owner]

\* redeemWithSig(owner, shares, receiver = owner, deadline, v, r, s) sent by
\* caller: the error it reverts with, or "ok".  The inner redeem runs with
\* msg.sender = caller, so _withdraw spends the owner's allowance to the caller
\* when the two differ.
redeemWithSig(caller, owner, shares, signedNonce, signer, expired) ==
    IF expired THEN "DeadlineExpired"
    ELSE IF ~signatureValid(owner, signedNonce, signer) THEN "InvalidSignature"
    ELSE IF shares > maxRedeem(owner) THEN "ERC4626ExceededMaxRedeem"
    ELSE IF caller # owner /\ owner \notin approved THEN "ERC20InsufficientAllowance"
    ELSE IF netAssetsOfWithdraw(shares) > tokenOf["vault"] THEN "ERC20InsufficientBalance"
    ELSE "ok"

\* ERC20.approve(relayer, type(uint256).max) on the share token by a holder.
Approve(h) ==
    /\ deployed \in SolidityVaults
    /\ h \notin approved
    /\ approved' = approved \cup {h}
    /\ UNCHANGED <<deployed, feeBps, totalSupply, balanceOf, tokenOf, txs, lastTx, vaultNonces>>
    /\ UNCHANGED <<baseVars, wsVars, coordVars, routerVars, fetchVars, operatorVars>>

RedeemWithSig(caller, owner, shares, signedNonce, signer, expired) ==
    /\ deployed \in SolidityVaults
    /\ txs < MaxTxs
    /\ txs' = txs + 1
    /\ LET outcome == redeemWithSig(caller, owner, shares, signedNonce, signer, expired)
           assets == previewRedeem(shares)
           netAssets == netAssetsOfWithdraw(shares)
       IN  IF outcome # "ok"
           THEN /\ lastTx' = [NoTx EXCEPT !.op = "redeemWithSig", !.caller = caller,
                                          !.arg = shares, !.reverted = TRUE,
                                          !.feeBefore = feeBps]
                /\ UNCHANGED <<deployed, feeBps, totalSupply, balanceOf, tokenOf, vaultNonces>>
           ELSE /\ vaultNonces' = [vaultNonces EXCEPT ![owner] = @ + 1]
                /\ totalSupply' = totalSupply - shares
                /\ balanceOf' = [balanceOf EXCEPT ![owner] = @ - shares]
                /\ tokenOf' = [tokenOf EXCEPT !["vault"] = @ - netAssets,
                                              ![owner] = @ + netAssets]
                /\ lastTx' = [NoTx EXCEPT !.op = "redeemWithSig", !.caller = caller,
                                          !.arg = shares, !.preview = assets,
                                          !.returned = assets, !.transferred = netAssets,
                                          !.feeBefore = feeBps]
                /\ UNCHANGED <<deployed, feeBps>>
    /\ UNCHANGED <<approved, baseVars, wsVars, coordVars, routerVars, fetchVars, operatorVars>>

\* TSV_USDT_Vault_BSC.depositWithPermit2(assets, receiver = msg.sender, ...):
\* Permit2 pulls the assets under nonces[msg.sender]++, the same mapping the
\* meta-redeem uses, then _deposit(msg.sender, receiver, assets,
\* previewDeposit(assets)) transfers the assets from the caller once more.
DepositWithPermit2(caller, amount, permitOk) ==
    /\ deployed = "bsc"
    /\ txs < MaxTxs
    /\ txs' = txs + 1
    /\ IF ~permitOk \/ tokenOf[caller] < 2 * amount
       THEN /\ Revert("depositWithPermit2", caller, amount)
            /\ UNCHANGED vaultNonces
       ELSE LET shares == convertToShares(amount, totalAssets + amount, totalSupply)
            IN  /\ vaultNonces' = [vaultNonces EXCEPT ![caller] = @ + 1]
                /\ tokenOf' = [tokenOf EXCEPT ![caller] = @ - 2 * amount,
                                              !["vault"] = @ + 2 * amount]
                /\ totalSupply' = totalSupply + shares
                /\ balanceOf' = [balanceOf EXCEPT ![caller] = @ + shares]
                /\ lastTx' = [NoTx EXCEPT !.op = "depositWithPermit2", !.caller = caller,
                                          !.arg = amount, !.returned = shares,
                                          !.transferred = 2 * amount, !.feeBefore = feeBps]
                /\ UNCHANGED <<deployed, feeBps>>
    /\ UNCHANGED <<approved, baseVars, wsVars, coordVars, routerVars, fetchVars, operatorVars>>

RedeemAmounts(h) == ({balanceOf[h], balanceOf[h] \div 2} \ {0}) \cup {balanceOf[h] + 1}

Relayers == {"relayer"}
Approvers == {"alice"}
Signers == Holders \cup {""}
SignedNonces == 0..2

\* The calls of redeemWithSig tried for an owner: the message the owner signed
\* over the current nonce, sent by the relayer or the owner for each amount;
\* and, sent by the relayer for the whole balance, a message signed over
\* another nonce, one signed by somebody else or by nobody, and one whose
\* deadline has passed.
SigInputs(owner) ==
    LET Call(c, sh, n, sg, ex) ==
            [caller |-> c, shares |-> sh, signedNonce |-> n, signer |-> sg, expired |-> ex]
    IN  {Call(c, sh, vaultNonces[owner], owner, FALSE) :
             c \in Relayers \cup {owner}, sh \in RedeemAmounts(owner)}
        \cup {Call("relayer", balanceOf[owner], n, owner, FALSE) : n \in SignedNonces}
        \cup {Call("relayer", balanceOf[owner], vaultNonces[owner], sg, FALSE) : sg \in Signers}
        \cup {Call("relayer", balanceOf[owner], vaultNonces[owner], owner, TRUE)}
Permit2Amounts == {500}


VaultInit ==
    /\ PipeAtRest
    /\ EngineAtRest
    /\ RestAtRest

VaultNext ==
    \/ \E kind \in VaultKinds, fee \in InitialFees : Deploy(kind, fee)
    \/ \E caller \in VaultCallers, newBps \in NewFees : SetFeeBps(caller, newBps)
    \/ \E h \in Holders, amount \in DepositAmounts : Deposit(h, amount)
    \/ \E h \in Holders : \E shares \in RedeemAmounts(h) : Redeem(h, shares)
    \/ \E h \in Approvers : Approve(h)
    \/ \E owner \in Holders : \E c \in SigInputs(owner) :
          RedeemWithSig(c.caller, owner, c.shares, c.signedNonce, c.signer, c.expired)
    \/ \E h \in Holders, amount \in Permit2Amounts, permitOk \in BOOLEAN :
          DepositWithPermit2(h, amount, permitOk)

SpecVault == VaultInit /\ [][VaultNext]_vars

soleDepositor(h) ==
    /\ balanceOf[h] > 0
    /\ totalSupply = balanceOf[h]
    /\ totalAssets = balanceOf[h]

C26_RedeemPaysPreview ==
    [][\A h \in Holders : \A shares \in RedeemAmounts(h) :
          (Redeem(h, shares) /\ shares <= maxRedeem(h)) =>
              /\ ~lastTx'.reverted =>
                    /\ lastTx'.returned = previewRedeem(shares)
                    /\ lastTx'.transferred = previewRedeem(shares)
                    /\ tokenOf'[h] = tokenOf[h] + previewRedeem(shares)
              /\ (soleDepositor(h) /\ shares = balanceOf[h]) =>
                    /\ ~lastTx'.reverted
                    /\ tokenOf'[h] = tokenOf[h] + totalAssets
                                        - (totalAssets * feeBps) \div 10000]_vars

C26_Witness ==
    /\ lastTx.op = "redeem"
    /\ lastTx.reverted
    /\ lastTx.arg = 1000
    /\ lastTx.preview = 999
    /\ totalSupply = 1000
    /\ balanceOf["alice"] = 1000
    /\ tokenOf["vault"] = 1000

(***************************************************************************)
(* OAppCoordinator: the two-phase cross-chain message protocol.  A         *)
(* reverted call leaves the storage as it was; lastReceive records the      *)
(* call, its outcome and the message as it was stored before the call.      *)
(***************************************************************************)
LZ_ENDPOINT == "endpoint"
Senders == {"peerA", "peerB"}
ReceiveCallers == {LZ_ENDPOINT, "other"}
CoordCallers == {"owner", "other"}
MessageTypes == {"PREPARE", "COMMIT", "ABORT"}
Timeouts == {0, HOUR}

Handled(reverted, msg) == [reverted |-> reverted, msg |-> msg]

handlePrepare(msg, srcEid, sender, nonce) ==
    IF msg.state = "Prepared" THEN Handled("", msg)
    ELSE IF msg.state # "None" THEN Handled("InvalidMessageState", msg)
    ELSE Handled("", [msgType |-> "PREPARE", srcEid |-> srcEid, sender |-> sender,
                      nonce |-> nonce, state |-> "Prepared", timestamp |-> blockTime])

\* _handleCommit without the MessageExpired test.
handleCommitUnexpiring(msg) ==
    IF msg.state # "Prepared" THEN Handled("InvalidMessageState", msg)
    ELSE Handled("", [msg EXCEPT !.state = "Committed"])

handleCommit(msg) ==
    IF msg.state # "Prepared" THEN Handled("InvalidMessageState", msg)
    ELSE IF blockTime > msg.timestamp + executionTimeout THEN Handled("MessageExpired", msg)
    ELSE Handled("", [msg EXCEPT !.state = "Committed"])

handleAbort(msg) ==
    IF msg.state # "Prepared" THEN Handled("InvalidMessageState", msg)
    ELSE Handled("", [msg EXCEPT !.state = "Aborted"])

\* lzReceive up to its outcome: the revert reason ("" when it returns) and the
\* message stored under msgId afterwards.
lzReceive(caller, srcEid, sender, msgType, msgId, msgNonce) ==
    IF caller # LZ_ENDPOINT THEN Handled("Unauthorized", messages[msgId])
    ELSE IF peers[srcEid] # sender THEN Handled("UnauthorizedPeer", messages[msgId])
    ELSE IF msgNonce <= nonces[srcEid] THEN Handled("InvalidNonce", messages[msgId])
    ELSE IF msgType = "PREPARE" THEN handlePrepare(messages[msgId], srcEid, sender, msgNonce)
    ELSE IF msgType = "COMMIT" THEN handleCommit(messages[msgId])
    ELSE handleAbort(messages[msgId])

SetPeer(caller, eid, peer) ==
    /\ IF caller = "owner" /\ peer # ""
       THEN peers' = [peers EXCEPT ![eid] = peer]
       ELSE UNCHANGED peers
    /\ lastReceive' = NoReceive
    /\ UNCHANGED <<messages, nonces, executionTimeout, blockTime, received>>
    /\ UNCHANGED <<baseVars, wsVars, vaultVars, routerVars, fetchVars, operatorVars>>

Send(caller, dstEid) ==
    /\ nonces[dstEid] < MaxNonce
    /\ IF caller = "owner" /\ peers[dstEid] # ""
       THEN nonces' = [nonces EXCEPT ![dstEid] = @ + 1]
       ELSE UNCHANGED nonces
    /\ lastReceive' = NoReceive
    /\ UNCHANGED <<peers, messages, executionTimeout, blockTime, received>>
    /\ UNCHANGED <<baseVars, wsVars, vaultVars, routerVars, fetchVars, operatorVars>>

LzReceive(caller, srcEid, sender, msgType, msgId, msgNonce) ==
    /\ LET r == lzReceive(caller, srcEid, sender, msgType, msgId, msgNonce)
       IN  /\ lastReceive' = [called |-> TRUE, caller |-> caller, srcEid |-> srcEid,
                              sender |-> sender, msgType |-> msgType, msgId |-> msgId,
                              nonce |-> msgNonce, reverted |-> r.reverted,
                              before |-> messages[msgId], nonceBefore |-> nonces[srcEid],
                              receivedBefore |-> received[srcEid], at |-> blockTime]
           /\ IF r.reverted = ""
              THEN /\ nonces' = [nonces EXCEPT ![srcEid] = msgNonce]
                   /\ messages' = [messages EXCEPT ![msgId] = r.msg]
                   /\ received' = [received EXCEPT ![srcEid] = msgNonce]
              ELSE UNCHANGED <<nonces, messages, received>>
    /\ UNCHANGED <<peers, executionTimeout, blockTime>>
    /\ UNCHANGED <<baseVars, wsVars, vaultVars, routerVars, fetchVars, operatorVars>>

SetExecutionTimeout(caller, newTimeout) ==
    /\ IF caller = "owner"
       THEN executionTimeout' = newTimeout
       ELSE UNCHANGED executionTimeout
    /\ lastReceive' = NoReceive
    /\ UNCHANGED <<peers, messages, nonces, blockTime, received>>
    /\ UNCHANGED <<baseVars, wsVars, vaultVars, routerVars, fetchVars, operatorVars>>

\* block.timestamp moves on between transactions.
Warp ==
    /\ blockTime \div HOUR < MaxHours
    /\ blockTime' = blockTime + HOUR
    /\ lastReceive' = NoReceive
    /\ UNCHANGED <<peers, messages, nonces, executionTimeout, received>>
    /\ UNCHANGED <<baseVars, wsVars, vaultVars, routerVars, fetchVars, operatorVars>>

CoordInit ==
    /\ PipeAtRest
    /\ EngineAtRest
    /\ RestAtRest

CoordNext ==
    \/ \E caller \in CoordCallers, eid \in Eids, peer \in {"", "peerA"} :
           SetPeer(caller, eid, peer)
    \/ \E caller \in CoordCallers, eid \in Eids : Send(caller, eid)
    \/ \E caller \in ReceiveCallers, eid \in Eids, sender \in Senders,
          msgType \in MessageTypes, msgId \in MsgIds, msgNonce \in 1..MaxNonce :
           /\ (caller # LZ_ENDPOINT \/ sender # "peerA") =>
                  (msgType = "PREPARE" /\ msgId = "m1" /\ msgNonce = MaxNonce)
           /\ LzReceive(caller, eid, sender, msgType, msgId, msgNonce)
    \/ \E caller \in CoordCallers, newTimeout \in Timeouts :
           SetExecutionTimeout(caller, newTimeout)
    \/ Warp

SpecCoord == CoordInit /\ [][CoordNext]_vars

(* C27: for every msgId the state only moves None -> Prepared -> Committed  *)
(* or None -> Prepared -> Aborted; Committed and Aborted are terminal; a    *)
(* COMMIT or ABORT for a message that is not Prepared is rejected; and a    *)
(* COMMIT arriving more than executionTimeout after the PREPARE is          *)
(* rejected.                                                                *)
ProtocolMoves ==
    {<<"None", "Prepared">>, <<"Prepared", "Committed">>, <<"Prepared", "Aborted">>}

rejected(receive) == receive.called /\ receive.reverted # ""

C27_TwoPhaseProtocol ==
    [][/\ \A m \in MsgIds :
             messages'[m].state # messages[m].state =>
                 <<messages[m].state, messages'[m].state>> \in ProtocolMoves
       /\ \A m \in MsgIds :
             messages[m].state \in {"Committed", "Aborted"} => messages'[m] = messages[m]
       /\ (/\ lastReceive'.called
           /\ lastReceive'.msgType \in {"COMMIT", "ABORT"}
           /\ messages[lastReceive'.msgId].state # "Prepared")
             => (rejected(lastReceive') /\ messages' = messages)
       /\ (/\ lastReceive'.called
           /\ lastReceive'.msgType = "COMMIT"
           /\ messages[lastReceive'.msgId].state = "Prepared"
           /\ blockTime > messages[lastReceive'.msgId].timestamp + executionTimeout)
             => (rejected(lastReceive') /\ messages' = messages)]_vars

C27_Witness ==
    /\ lastReceive.called
    /\ lastReceive.msgType = "COMMIT"
    /\ lastReceive.msgId = "m1"
    /\ lastReceive.reverted = "MessageExpired"
    /\ messages["m1"].state = "Prepared"
    /\ lastReceive.at > messages["m1"].timestamp + executionTimeout
    /\ executionTimeout = HOUR

(* C28: delivering again a PREPARE message that was already processed (same *)
(* msgId, same nonce, from the authorised peer) is accepted as a no-op: the *)
(* call does not revert and the message state and stored fields are         *)
(* unchanged.                                                               *)
redeliveredPrepare(receive) ==
    /\ receive.called
    /\ receive.caller = LZ_ENDPOINT
    /\ receive.msgType = "PREPARE"
    /\ receive.sender = peers[receive.srcEid]
    /\ receive.before.state = "Prepared"
    /\ receive.before.srcEid = receive.srcEid
    /\ receive.before.sender = receive.sender
    /\ receive.before.nonce = receive.nonce

C28_RedeliveredPrepareIsNoOp ==
    redeliveredPrepare(lastReceive) =>
        /\ lastReceive.reverted = ""
        /\ messages[lastReceive.msgId] = lastReceive.before

C28_Witness ==
    /\ redeliveredPrepare(lastReceive)
    /\ lastReceive.reverted = "InvalidNonce"
    /\ lastReceive.nonce = 1
    /\ lastReceive.nonceBefore = 1

(***************************************************************************)
(* calculateOptimalWeights called directly: strategy lists that include    *)
(* strategies of 30-day mean APY 0, preferred and other protocols, for an   *)
(* EVM and a non-EVM vault.                                                 *)
(***************************************************************************)
MaxDirect == 3
DirectAPYs == {0, 5, 8}
DirectPools ==
    { Pool("ethereum", AAVE, USDC, apy) : apy \in DirectAPYs }
    \cup { Pool("ethereum", MORPHO, USDC, apy) : apy \in DirectAPYs }
    \cup { Pool("solana", KAMINO, USDC, apy) : apy \in DirectAPYs }
DirectLists == UNION { [1..n -> DirectPools] : n \in 0..MaxDirect }
DirectTVLs == {0, DEFAULT_TVL}

WeightsInit ==
    /\ pc = "direct"
    /\ vaultId \in {"ethereum-usdt", "solana-usdc"}
    /\ pools = <<>>
    /\ \E list \in DirectLists :
          strategies = [i \in 1..Len(list) |-> toStrategy(list[i], i)]
    /\ totalTVL = 0
    /\ selected = <<>>
    /\ result = <<>>
    /\ prev = NoPrev
    /\ EngineAtRest
    /\ RestAtRest

CalculateDirect ==
    /\ pc = "direct"
    /\ \E tvl \in DirectTVLs :
          /\ totalTVL' = tvl
          /\ selected' = IF Len(strategies) = 0 THEN <<>>
                         ELSE selectStrategies(strategies,
                                               chainForWeights(vaultId, VaultChain(vaultId)))
          /\ result' = calculateOptimalWeights(strategies, tvl,
                                               chainForWeights(vaultId, VaultChain(vaultId)))
    /\ pc' = "returned"
    /\ UNCHANGED <<vaultId, pools, strategies, prev, engineVars, restVars>>

WeightsNext == CalculateDirect

SpecWeights == WeightsInit /\ [][WeightsNext]_vars

priceOfTotals(state) ==
    IF state.totalShares > 0 THEN Div(state.totalAssets, state.totalShares) ELSE One

C31_SnapshotPriceFromTotals ==
    \A v \in Vaults :
        vaultStates[v].has =>
            Same(vaultStates[v].lastPricePerShare, priceOfTotals(vaultStates[v]))

C31_Witness ==
    \E v \in Vaults :
        /\ vaultStates[v].has
        /\ vaultStates[v].totalAssets = 2000000
        /\ vaultStates[v].totalShares = 1000000
        /\ vaultStates[v].lastPricePerShare = One

(* C32: vault snapshots are changed only by updateVaultState: getVaultAPY,  *)
(* calculateRealAPY and triggerRebalanceIfNeeded leave every vault's stored *)
(* total assets, total shares, price-per-share and observation time         *)
(* unchanged, and a snapshot persists across engine refreshes until the     *)
(* next updateVaultState for that vault.                                    *)
C32_SnapshotsChangedOnlyByUpdate ==
    [][\A v \in Vaults :
          vaultStates'[v] # vaultStates[v] =>
              \E snap \in Snapshots : v \in TrackedVaults /\ UpdateVaultState(v, snap)]_vars

C32_Witness ==
    \E v \in TrackedVaults :
        /\ served.vault = v
        /\ served.recomputed
        /\ vaultStates[v].has
        /\ vaultStates[v].lastUpdateTime < now
        /\ served.value.totalTVL = tvlOf(vaultStates[v])

(***************************************************************************)
(* getVaultAPY over pool lists whose pools pass the filter for one chain   *)
(* or fail it in one respect, or lie below the 30-day mean floor.          *)
(***************************************************************************)
MaxYieldPools == 2
YieldPools ==
    { RawPool("Solana", KAMINO, USDC, 5000000, 8, 8, TRUE),
      RawPool("Ethereum", AAVE, USDC, 5000000, 8, 8, TRUE),
      RawPool("Arbitrum", AAVE, USDT, 5000000, 8, 6, TRUE),
      RawPool("Solana", KAMINO, USDC, 5000000, 8, 4, TRUE),
      RawPool("Ethereum", AAVE, USDC, 100000, 8, 8, TRUE),
      RawPool("Solana", MARGINFI, USDC, 5000000, 8, 8, FALSE),
      RawPool("Ethereum", AAVE, "WBTC", 5000000, 8, 8, TRUE),
      [RawPool("Solana", MARGINFI, USDT, 5000000, 8, 0, TRUE) EXCEPT !.apyBase = 6],
      [RawPool("Ethereum", MORPHO, USDC, 5000000, 8, 0, TRUE) EXCEPT !.apyBase = 4] }
YieldLists == UNION { [1..n -> YieldPools] : n \in 0..MaxYieldPools }

YieldInit ==
    /\ PipeAtRest
    /\ EngineAtRest
    /\ TrackerAtRest
    /\ ApiAtRest
    /\ LaterAtRest
    /\ fpc = "off"
    /\ chainKey = ""
    /\ eligible = <<>>
    /\ \E list \in YieldLists : raw = [i \in 1..Len(list) |-> [list[i] EXCEPT !.pool = i]]

YieldNext == \E v \in Vaults : GetVaultAPYNow(v)

SpecYield == YieldInit /\ [][YieldNext]_vars

(* C33: every strategy appearing in a VaultYield produced by getVaultAPY    *)
(* derives from a pool of the current pool list that passed the Pool Filter *)
(* for a chain in the vault's chain scope, and has a 30-day mean APY of at  *)
(* least 5%; no pool that fails the filter or the floor receives a non-zero *)
(* weight.                                                                  *)
chainScope(v) == IF isEVMVault(v) THEN {"ethereum", "arbitrum", "base", "plasma"}
                 ELSE {VaultChain(v)}

passedFor(pool, chain) ==
    \E k \in 1..Len(CHAIN_CONFIGS) :
        CHAIN_CONFIGS[k].chain = chain /\ passesFilter(pool, CHAIN_CONFIGS[k])

meanOf(pool) == IF pool.apyMean30d # 0 THEN pool.apyMean30d ELSE pool.apyBase

slippageBps == 50
RouterCallers == {"owner", "vault"}
Adapters == {"", "adapter"}
Caps == {0, 50, 100}
Cooldowns == {0, HOUR}
Amounts == {50, 100}

Outcome(reverted, s) == [reverted |-> reverted, s |-> s]

addStrategy(s, caller, adapter, cap, cooldown) ==
    IF caller # "owner" THEN Outcome("OwnableUnauthorizedAccount", s)
    ELSE IF s.adapter # "" THEN Outcome("StrategyExists", s)
    ELSE IF adapter = "" THEN Outcome("InvalidAdapter", s)
    ELSE IF cap = 0 THEN Outcome("InvalidCap", s)
    ELSE Outcome("", [adapter |-> adapter, cap |-> cap, allocated |-> 0, lastRebalance |-> 0,
                      cooldown |-> cooldown, active |-> TRUE, emergencyExit |-> FALSE])

updateStrategy(s, caller, newCap, active) ==
    IF caller # "owner" THEN Outcome("OwnableUnauthorizedAccount", s)
    ELSE IF s.adapter = "" THEN Outcome("InvalidAdapter", s)
    ELSE Outcome("", [s EXCEPT !.cap = newCap, !.active = active])

\* allocate without the emergencyExit test
allocateAfterExit(s, caller, amount, adapterOk) ==
    IF caller # "vault" THEN Outcome("Unauthorized", s)
    ELSE IF ~s.active THEN Outcome("StrategyNotActive", s)
    ELSE IF routerTime < s.lastRebalance + s.cooldown THEN Outcome("CooldownNotMet", s)
    ELSE IF s.allocated + amount > s.cap THEN Outcome("CapExceeded", s)
    ELSE IF ~adapterOk THEN Outcome("Adapter deposit failed", s)
    ELSE Outcome("", [s EXCEPT !.allocated = @ + amount, !.lastRebalance = routerTime])

allocate(s, caller, amount, adapterOk) ==
    IF caller # "vault" THEN Outcome("Unauthorized", s)
    ELSE IF ~s.active THEN Outcome("StrategyNotActive", s)
    ELSE IF s.emergencyExit THEN Outcome("StrategyNotActive", s)
    ELSE IF routerTime < s.lastRebalance + s.cooldown THEN Outcome("CooldownNotMet", s)
    ELSE IF s.allocated + amount > s.cap THEN Outcome("CapExceeded", s)
    ELSE IF ~adapterOk THEN Outcome("Adapter deposit failed", s)
    ELSE Outcome("", [s EXCEPT !.allocated = @ + amount, !.lastRebalance = routerTime])

withdraw(s, caller, amount, actualAmount, adapterOk) ==
    IF caller # "vault" THEN Outcome("Unauthorized", s)
    ELSE IF s.adapter = "" THEN Outcome("InvalidAdapter", s)
    ELSE IF ~adapterOk THEN Outcome("Adapter withdraw failed", s)
    ELSE IF actualAmount < (amount * (10000 - slippageBps)) \div 10000
         THEN Outcome("SlippageTooHigh", s)
    ELSE Outcome("", [s EXCEPT !.allocated = IF @ > actualAmount THEN @ - actualAmount ELSE 0,
                               !.lastRebalance = routerTime])

emergencyExit(s, caller, adapterOk) ==
    IF caller # "owner" THEN Outcome("OwnableUnauthorizedAccount", s)
    ELSE IF s.adapter = "" THEN Outcome("InvalidAdapter", s)
    ELSE IF s.allocated > 0 /\ ~adapterOk THEN Outcome("Emergency withdraw failed", s)
    ELSE Outcome("", [s EXCEPT !.emergencyExit = TRUE, !.active = FALSE, !.allocated = 0])

\* the call is recorded and, unless it reverted, the strategy is written
RouterCall(op, id, amount, r) ==
    /\ lastCall' = [op |-> op, id |-> id, amount |-> amount, reverted |-> r.reverted,
                    before |-> strategyTable[id]]
    /\ strategyTable' = IF r.reverted = "" THEN [strategyTable EXCEPT ![id] = r.s]
                        ELSE strategyTable
    /\ UNCHANGED routerTime
    /\ UNCHANGED <<baseVars, wsVars, vaultVars, coordVars, fetchVars, operatorVars>>

AddStrategy(caller, id, adapter, cap, cooldown) ==
    RouterCall("addStrategy", id, cap,
               addStrategy(strategyTable[id], caller, adapter, cap, cooldown))

UpdateStrategy(caller, id, newCap, active) ==
    RouterCall("updateStrategy", id, newCap,
               updateStrategy(strategyTable[id], caller, newCap, active))

Allocate(caller, id, amount, adapterOk) ==
    RouterCall("allocate", id, amount, allocate(strategyTable[id], caller, amount, adapterOk))

Withdraw(caller, id, amount, actualAmount, adapterOk) ==
    RouterCall("withdraw", id, amount,
               withdraw(strategyTable[id], caller, amount, actualAmount, adapterOk))

EmergencyExit(caller, id, adapterOk) ==
    RouterCall("emergencyExit", id, 0, emergencyExit(strategyTable[id], caller, adapterOk))

RouterWarp ==
    /\ routerTime \div HOUR < MaxRouterHours
    /\ routerTime' = routerTime + HOUR
    /\ lastCall' = NoCall
    /\ UNCHANGED strategyTable
    /\ UNCHANGED <<baseVars, wsVars, vaultVars, coordVars, fetchVars, operatorVars>>

RouterInit ==
    /\ PipeAtRest
    /\ EngineAtRest
    /\ RestAtRest

RouterNext ==
    \/ \E caller \in RouterCallers, id \in StrategyIds, adapter \in Adapters, cap \in Caps,
          cooldown \in Cooldowns : AddStrategy(caller, id, adapter, cap, cooldown)
    \/ \E caller \in RouterCallers, id \in StrategyIds, newCap \in Caps, active \in BOOLEAN :
           UpdateStrategy(caller, id, newCap, active)
    \/ \E caller \in RouterCallers, id \in StrategyIds, amount \in Amounts, adapterOk \in BOOLEAN :
           Allocate(caller, id, amount, adapterOk)
    \/ \E caller \in RouterCallers, id \in StrategyIds, amount \in Amounts,
          actualAmount \in Amounts, adapterOk \in BOOLEAN :
           Withdraw(caller, id, amount, actualAmount, adapterOk)
    \/ \E caller \in RouterCallers, id \in StrategyIds, adapterOk \in BOOLEAN :
           EmergencyExit(caller, id, adapterOk)
    \/ RouterWarp

SpecRouter == RouterInit /\ [][RouterNext]_vars

(* C34: for every strategy of the router allocated <= cap holds in every    *)
(* reachable state, after any sequence of addStrategy, updateStrategy,      *)
(* allocate, withdraw and emergencyExit calls; an allocate that would       *)
(* exceed the cap reverts and changes nothing.                              *)
C34_AllocatedWithinCap ==
    /\ \A id \in StrategyIds : strategyTable[id].allocated <= strategyTable[id].cap
    /\ (lastCall.op = "allocate" /\ lastCall.before.allocated + lastCall.amount > lastCall.before.cap)
           => (lastCall.reverted # "" /\ strategyTable[lastCall.id] = lastCall.before)

C34_Witness ==
    /\ lastCall.op = "updateStrategy"
    /\ lastCall.reverted = ""
    /\ lastCall.before.allocated = 100
    /\ lastCall.before.cap = 100
    /\ strategyTable["s1"].cap = 50
    /\ strategyTable["s1"].allocated = 100

(* C35: after emergencyExit(strategyId) succeeds the strategy's allocated   *)
(* amount is 0 and every later allocate to that strategy reverts, for any   *)
(* subsequent calls, updateStrategy(strategyId, cap, active = true)         *)
(* included.                                                                *)
C35_ExitIsFinal ==
    \A id \in StrategyIds :
        strategyTable[id].emergencyExit =>
            /\ strategyTable[id].allocated = 0
            /\ (lastCall.op = "allocate" /\ lastCall.id = id) => lastCall.reverted # ""

C35_Witness ==
    /\ lastCall.op = "allocate"
    /\ lastCall.id = "s1"
    /\ lastCall.amount = 50
    /\ lastCall.reverted = "StrategyNotActive"
    /\ strategyTable["s1"].emergencyExit
    /\ strategyTable["s1"].active
    /\ strategyTable["s1"].cap = 100

(* C36: meta-redeem replay protection.  Every redeemWithSig that succeeds   *)
(* was presented with a message the owner signed over the owner's nonce as  *)
(* it stood at the call and raises that nonce by exactly 1, leaving the     *)
(* other holders' nonces alone; no step of the vault lowers a nonce, so a   *)
(* signed (owner, shares, receiver, nonce, deadline) message is accepted at *)
(* most once.  A redeemWithSig that fails (deadline passed, signer not the  *)
(* owner, or a revert of the inner redeem) leaves the nonces, the share     *)
(* balances, the supply and the assets as they were.                         *)
C36_MetaRedeemReplayProtected ==
    [][/\ \A h \in Holders : vaultNonces'[h] >= vaultNonces[h]
       /\ lastTx'.op = "redeemWithSig" /\ txs' # txs =>
              \A owner \in Holders : \A c \in SigInputs(owner) :
                  RedeemWithSig(c.caller, owner, c.shares, c.signedNonce, c.signer,
                                c.expired) =>
                      IF lastTx'.reverted
                      THEN /\ vaultNonces' = vaultNonces
                           /\ balanceOf' = balanceOf
                           /\ totalSupply' = totalSupply
                           /\ tokenOf' = tokenOf
                      ELSE /\ ~c.expired
                           /\ c.signer = owner
                           /\ c.signedNonce = vaultNonces[owner]
                           /\ vaultNonces' = [vaultNonces EXCEPT ![owner] = @ + 1]
                           /\ c.signedNonce < vaultNonces'[owner]]_vars

\* The relayer has redeemed half of alice's shares under the nonce 0, and
\* a further presentation by the relayer was turned down with everything left
\* in place.
C36_Witness ==
    /\ lastTx.op = "redeemWithSig"
    /\ lastTx.caller = "relayer"
    /\ lastTx.reverted
    /\ vaultNonces["alice"] = 1
    /\ balanceOf["alice"] = 500
    /\ "alice" \in approved

----------------------------------------------------------------------------
(* Overlapping fetchPools calls, request by request.  A call that finds no *)
(* fresh cache entry issues its feed request; the upstream puts the data it *)
(* holds at that moment into the response (or fails the request); the       *)
(* response reaches the process later, and nothing orders the arrivals of   *)
(* two requests.  What fetchPools runs after its await is one action.       *)

\* fetchPools up to its await, called by the scheduled job, the startup fetch
\* and every getTopStrategies / getPoolsForChain
CallFetchPools ==
    /\ Len(requests) < MaxRequests
    /\ IF cacheFresh(cache, now)
       THEN /\ fetched' = [outcome |-> "cached", ret |-> cache.data]
            /\ UNCHANGED requests
       ELSE /\ requests' = Append(requests, [cached |-> cache, state |-> "sent", data |-> 0])
            /\ UNCHANGED fetched
    /\ UNCHANGED <<now, ticks, feed, cache, currentAPYs, calls, started, lastGood, replaced,
                   served, lastStore, pipeVars, filterVars, trackerVars, apiVars,
                   wsVars, vaultVars, coordVars, routerVars, operatorVars>>

\* the upstream handles request i: it answers with the data it holds, or fails
UpstreamHandles(i, ok) ==
    /\ i \in 1..Len(requests)
    /\ requests[i].state = "sent"
    /\ requests' = [requests EXCEPT ![i] =
                       IF ok THEN [@ EXCEPT !.state = "answered", !.data = feed]
                       ELSE [@ EXCEPT !.state = "failed"]]
    /\ UNCHANGED <<engineVars, lastStore, pipeVars, filterVars, trackerVars, apiVars,
                   wsVars, vaultVars, coordVars, routerVars, operatorVars>>

\* fetchPools after its await: this.cache.set(cacheKey, {data, timestamp:
\* Date.now()}) and return, or the catch block's return cached?.data || []
ResponseArrives(i) ==
    /\ i \in 1..Len(requests)
    /\ requests[i].state \in {"answered", "failed"}
    /\ IF requests[i].state = "answered"
       THEN /\ cache' = [has |-> TRUE, data |-> requests[i].data, timestamp |-> now]
            /\ lastStore' = [seq |-> i, over |-> lastStore.seq]
            /\ fetched' = [outcome |-> "ok", ret |-> requests[i].data]
            /\ requests' = [requests EXCEPT ![i].state = "done"]
       ELSE /\ fetched' = [outcome |-> "failed", ret |-> fallback(requests[i].cached)]
            /\ requests' = [requests EXCEPT ![i].state = "lost"]
            /\ UNCHANGED <<cache, lastStore>>
    /\ UNCHANGED <<now, ticks, feed, currentAPYs, calls, started, lastGood, replaced,
                   served, pipeVars, filterVars, trackerVars, apiVars,
                   wsVars, vaultVars, coordVars, routerVars, operatorVars>>

OverlapInit ==
    /\ PipeAtRest
    /\ EngineAtRest
    /\ RestAtRest

OverlapNext ==
    \/ CallFetchPools
    \/ \E i \in 1..MaxRequests, ok \in BOOLEAN : UpstreamHandles(i, ok)
    \/ \E i \in 1..MaxRequests : ResponseArrives(i)
    \/ Tick
    \/ FeedChange

SpecOverlap == OverlapInit /\ [][OverlapNext]_vars

\* the requests whose responses were stored, and the one issued last of them
storedRequests == {i \in 1..Len(requests) : requests[i].state = "done"}
latestStored == CHOOSE i \in storedRequests : \A j \in storedRequests : j <= i

(* C37: the pool cache never regresses under overlapping fetchPools calls:  *)
(* the response of a request is never stored over the response of a request *)
(* that was issued after it, and once no request is in flight the cache     *)
(* holds the data of the latest-issued request that succeeded.              *)
C37_CacheNeverRegresses ==
    /\ lastStore.seq >= lastStore.over
    /\ (storedRequests # {} /\ \A i \in 1..Len(requests) : requests[i].state \in {"done", "lost"})
          => cache.data = requests[latestStored].data

\* Two requests were in flight together; the upstream answered the first, its
\* data changed, it answered the second; the second response arrived and was
\* stored, then the first arrived and its older data was stored over it.
C37_Witness ==
    /\ Len(requests) = 2
    /\ requests[1].state = "done"
    /\ requests[2].state = "done"
    /\ ~requests[2].cached.has
    /\ requests[1].data = 1
    /\ requests[2].data = 2
    /\ lastStore = [seq |-> 1, over |-> 2]
    /\ cache.data = 1

----------------------------------------------------------------------------
(* operator-api: RebalanceService.shouldRebalance reads the VaultYield of   *)
(* a chain from the yields backend over HTTP.  The backend's handler is the *)
(* getVaultAPY call whose value `served` holds; what shouldRebalance runs   *)
(* after its await is one action.                                           *)

DEFAULT_DRIFT_THRESHOLD == 100000
DriftThresholds == {-1, 0, DEFAULT_DRIFT_THRESHOLD}

\* how the request ends: a 200 response, a 500 response, no connection
Replies == {"ok", "error", "unreachable"}

\* a number after res.json and JSON parsing, as arithmetic reads it: NaN and
\* the infinities are serialised as null, and null counts as 0
jsonNumber(x) == IF isFinite(x) THEN x ELSE Zero

\* Math.abs(strategy.allocated - strategy.weight * apy.data.data.totalTVL)
driftOf(strategy, tvl) ==
    FAbs(FSub(jsonNumber(strategy.allocated), Times(jsonNumber(strategy.weight), tvl)))

RECURSIVE totalDriftOf(_, _)
totalDriftOf(strategies_, tvl) ==
    IF strategies_ = <<>> THEN Zero
    ELSE FAdd(driftOf(Head(strategies_), tvl), totalDriftOf(Tail(strategies_), tvl))

\* shouldRebalance with totalDrift >= threshold for its comparison
shouldRebalanceInclusive(reply, data, threshold) ==
    IF reply # "ok" THEN FALSE
    ELSE ~FGreater(Int2F(threshold), totalDriftOf(data.strategies, data.totalTVL))

\* RebalanceService.shouldRebalance: axios throws on a failed request and on a
\* 500 response, and the catch block returns false
shouldRebalance(reply, data, threshold) ==
    IF reply # "ok" THEN FALSE
    ELSE FGreater(totalDriftOf(data.strategies, data.totalTVL), Int2F(threshold))

ShouldRebalance(reply, threshold) ==
    /\ served.vault # ""
    /\ rebalanceCheck' =
           [called |-> TRUE, threshold |-> threshold, reply |-> reply,
            totalDrift |-> IF reply = "ok"
                           THEN totalDriftOf(served.value.strategies, served.value.totalTVL)
                           ELSE Zero,
            value |-> shouldRebalance(reply, served.value, threshold)]
    /\ UNCHANGED <<pipeVars, engineVars, filterVars, trackerVars, apiVars,
                   wsVars, vaultVars, coordVars, routerVars, fetchVars>>

\* what the feed answers while the operator runs
OperatorFeeds ==
    TrackerFeeds
    \cup { <<RawPool("Ethereum", AAVE, USDC, 5000000, 8, 8, TRUE),
             RawPool("Ethereum", MORPHO, USDC, 5000000, 8, 6, TRUE)>> }

OperatorInit ==
    /\ PipeAtRest
    /\ EngineAtRest
    /\ TrackerAtRest
    /\ ApiAtRest
    /\ LaterAtRest
    /\ fpc = "off"
    /\ chainKey = ""
    /\ eligible = <<>>
    /\ \E f \in OperatorFeeds : raw = [i \in 1..Len(f) |-> [f[i] EXCEPT !.pool = i]]

OperatorNext ==
    \/ \E v \in TrackedVaults, snap \in Snapshots : UpdateVaultState(v, snap)
    \/ \E v \in Vaults : GetVaultAPYNow(v)
    \/ \E reply \in Replies, threshold \in DriftThresholds : ShouldRebalance(reply, threshold)

SpecOperator == OperatorInit /\ [][OperatorNext]_vars

(* C38: for every VaultYield the engine produces, each strategy's allocated *)
(* equals weight x totalTVL, so the total drift shouldRebalance computes    *)
(* from it is 0 and shouldRebalance returns false for every non-negative    *)
(* threshold; it also returns false, and raises no error, when the yields   *)
(* backend cannot be reached or answers with an error.                      *)
C38_EngineOutputNeverDrifts ==
    /\ \A v \in Vaults :
           currentAPYs[v].has =>
               \A i \in 1..Len(currentAPYs[v].strategies) :
                   Same(currentAPYs[v].strategies[i].allocated,
                        Times(currentAPYs[v].strategies[i].weight, currentAPYs[v].totalTVL))
    /\ rebalanceCheck.called =>
           /\ rebalanceCheck.totalDrift = Zero
           /\ rebalanceCheck.threshold >= 0 => ~rebalanceCheck.value
           /\ rebalanceCheck.reply # "ok" => ~rebalanceCheck.value

\* shouldRebalance read a VaultYield that spreads a non-zero vault value over
\* a strategy, with threshold 0, and answered false.
C38_Witness ==
    /\ rebalanceCheck.called
    /\ rebalanceCheck.reply = "ok"
    /\ rebalanceCheck.threshold = 0
    /\ ~rebalanceCheck.value
    /\ served.value.totalTVL > 0
    /\ \E i \in 1..Len(served.value.strategies) :
          /\ served.value.strategies[i].weight.n > 0
          /\ served.value.strategies[i].allocated.n > 0

(* C39: in OAppCoordinator an inbound message from an authorised peer whose *)
(* nonce is greater than every nonce received from that peer before is      *)
(* never turned down with InvalidNonce, however many messages the contract  *)
(* has itself sent to that peer; a PREPARE followed by its COMMIT is not     *)
(* rejected because of local sends in between.                               *)
C39_SendsLeaveInboundNoncesAlone ==
    ( /\ lastReceive.called
      /\ lastReceive.caller = LZ_ENDPOINT
      /\ lastReceive.sender # ""
      /\ lastReceive.sender = peers[lastReceive.srcEid]
      /\ lastReceive.nonce > lastReceive.receivedBefore )
        => lastReceive.reverted # "InvalidNonce"

\* The peer's PREPARE with nonce 1 was accepted, the owner sent one message to
\* that peer, and the peer's COMMIT with nonce 2 was turned down with
\* InvalidNonce; the message stays Prepared.
C39_Witness ==
    /\ lastReceive.called
    /\ lastReceive.caller = LZ_ENDPOINT
    /\ lastReceive.sender = peers[lastReceive.srcEid]
    /\ lastReceive.msgType = "COMMIT"
    /\ lastReceive.nonce = 2
    /\ lastReceive.receivedBefore = 1
    /\ lastReceive.nonceBefore = 2
    /\ lastReceive.reverted = "InvalidNonce"
    /\ lastReceive.before.state = "Prepared"
    /\ messages[lastReceive.msgId].state = "Prepared"

============================================================================
